---- MODULE Spec2Model ----
(***************************************************************************)
(* A model of applyFlow's serverless endpoints: job discovery (api/jobs.js), *)
(* the AI endpoint (api/ai.js) and the mail endpoint (api/email.js).         *)
(*                                                                           *)
(* JavaScript strings are modelled as sequences of one-character strings,   *)
(* so that toLowerCase, split, trim, includes and the regular expressions   *)
(* of the source are computed on characters.  null / undefined is Null.     *)
(***************************************************************************)
EXTENDS Integers, Sequences, FiniteSets, TLC

\* ------------------------------------------------------------------------
\* JavaScript string primitives
\* ------------------------------------------------------------------------

\* null / undefined: distinct from every string, the empty string included.
Null == <<"<null>">>

\* x || '' on a string-or-null value.
OrEmpty(s) == IF s = Null THEN <<>> ELSE s

\* JavaScript truthiness of a string-or-null value.
Truthy(s) == s # Null /\ s # <<>>

UpperChars ==
    <<"A", "B", "C", "D", "E", "F", "G", "H", "I", "J", "K", "L", "M",
      "N", "O", "P", "Q", "R", "S", "T", "U", "V", "W", "X", "Y", "Z">>

LowerChars ==
    <<"a", "b", "c", "d", "e", "f", "g", "h", "i", "j", "k", "l", "m",
      "n", "o", "p", "q", "r", "s", "t", "u", "v", "w", "x", "y", "z">>

LowerTable ==
    [c \in {UpperChars[i] : i \in DOMAIN UpperChars} |->
        LowerChars[CHOOSE i \in DOMAIN UpperChars : UpperChars[i] = c]]

LowerChar(c) == IF c \in DOMAIN LowerTable THEN LowerTable[c] ELSE c

\* String.prototype.toLowerCase
ToLowerCase(s) == [i \in DOMAIN s |-> LowerChar(s[i])]

\* /\s/ restricted to the white space the model's texts contain
IsSpace(c) == c \in {" ", "\n", "\t"}

IsDigit(c) == c \in {"0", "1", "2", "3", "4", "5", "6", "7", "8", "9"}

\* s.startsWith(p, i - 1), i being a 1-based position
MatchesAt(s, i, p) ==
    /\ i >= 1
    /\ i + Len(p) - 1 <= Len(s)
    /\ \A k \in 1..Len(p) : s[i + k - 1] = p[k]

\* String.prototype.indexOf from position i, 1-based; 0 when absent
RECURSIVE IndexFrom(_, _, _)
IndexFrom(s, p, i) ==
    IF i + Len(p) - 1 > Len(s)
    THEN 0
    ELSE IF MatchesAt(s, i, p) THEN i ELSE IndexFrom(s, p, i + 1)

IndexOf(s, p) == IndexFrom(s, p, 1)

\* String.prototype.includes
Includes(s, p) == IndexOf(s, p) # 0

\* String.prototype.trimStart
RECURSIVE TrimStart(_)
TrimStart(s) ==
    IF s # <<>> /\ IsSpace(Head(s)) THEN TrimStart(Tail(s)) ELSE s

\* String.prototype.trimEnd
RECURSIVE TrimEnd(_)
TrimEnd(s) ==
    IF s # <<>> /\ IsSpace(s[Len(s)])
    THEN TrimEnd(SubSeq(s, 1, Len(s) - 1))
    ELSE s

\* String.prototype.trim
Trim(s) == TrimEnd(TrimStart(s))

\* String.prototype.split with a one-character separator: ''.split(',') is ['']
RECURSIVE Split(_, _)
Split(s, sep) ==
    LET at == IndexOf(s, <<sep>>)
    IN  IF at = 0
        THEN <<s>>
        ELSE <<SubSeq(s, 1, at - 1)>> \o Split(SubSeq(s, at + 1, Len(s)), sep)

\* Array.prototype.map(x => x.trim())
MapTrim(parts) == [i \in DOMAIN parts |-> Trim(parts[i])]

Min(a, b) == IF a < b THEN a ELSE b

Max(a, b) == IF a > b THEN a ELSE b

\* The sequences over S of length at most n
SeqsUpTo(S, n) == UNION {[1..k -> S] : k \in 0..n}

\* ------------------------------------------------------------------------
\* The texts the states name, with their characters
\* ------------------------------------------------------------------------

\* The key of null / undefined
NullText == "<null>"

CharsOf ==
    ("true" :>
       <<"t", "r", "u", "e">>)
    @@
    ("false" :>
       <<"f", "a", "l", "s", "e">>)
    @@
    ("null" :>
       <<"n", "u", "l", "l">>)
    @@
    ("{}" :>
       <<"{", "}">>)
    @@
    ("[]" :>
       <<"[", "]">>)
    @@
    ("~~~json" :>
       <<"~", "~", "~", "j", "s", "o", "n">>)
    @@
    ("~~~" :>
       <<"~", "~", "~">>)
    @@
    ("undefined" :>
       <<"u", "n", "d", "e", "f", "i", "n", "e", "d">>)
    @@
    ("Bearer " :>
       <<"B", "e", "a", "r", "e", "r", " ">>)
    @@
    ("Basic dTE6cHc=" :>
       <<"B", "a", "s", "i", "c", " ", "d", "T", "E", "6", "c", "H", "c",
         "=">>)
    @@
    ("Bearer expired" :>
       <<"B", "e", "a", "r", "e", "r", " ", "e", "x", "p", "i", "r", "e",
         "d">>)
    @@
    ("Bearer token-u1" :>
       <<"B", "e", "a", "r", "e", "r", " ", "t", "o", "k", "e", "n", "-",
         "u", "1">>)
    @@
    ("Bearer token-u2" :>
       <<"B", "e", "a", "r", "e", "r", " ", "t", "o", "k", "e", "n", "-",
         "u", "2">>)
    @@
    ("token-u1" :>
       <<"t", "o", "k", "e", "n", "-", "u", "1">>)
    @@
    ("token-u2" :>
       <<"t", "o", "k", "e", "n", "-", "u", "2">>)
    @@
    ("{\"contacts\":[]}" :>
       <<"{", "\"", "c", "o", "n", "t", "a", "c", "t", "s", "\"", ":", "[",
         "]", "}">>)
    @@
    ("{\"subject\":\"Application: " :>
       <<"{", "\"", "s", "u", "b", "j", "e", "c", "t", "\"", ":", "\"",
         "A", "p", "p", "l", "i", "c", "a", "t", "i", "o", "n", ":", " ">>)
    @@
    (" at " :>
       <<" ", "a", "t", " ">>)
    @@
    ("\",\"body\":\"Hi,\\n\\nI am interested in this position.\\n\\nBest regards\",\"contactEmail\":\"" :>
       <<"\"", ",", "\"", "b", "o", "d", "y", "\"", ":", "\"", "H", "i",
         ",", "\\", "n", "\\", "n", "I", " ", "a", "m", " ", "i", "n", "t",
         "e", "r", "e", "s", "t", "e", "d", " ", "i", "n", " ", "t", "h",
         "i", "s", " ", "p", "o", "s", "i", "t", "i", "o", "n", ".", "\\",
         "n", "\\", "n", "B", "e", "s", "t", " ", "r", "e", "g", "a", "r",
         "d", "s", "\"", ",", "\"", "c", "o", "n", "t", "a", "c", "t", "E",
         "m", "a", "i", "l", "\"", ":", "\"">>)
    @@
    ("\"}" :>
       <<"\"", "}">>)
    @@
    ("{\"overallScore\":0,\"matchedSkills\":[],\"missingSkills\":[]}" :>
       <<"{", "\"", "o", "v", "e", "r", "a", "l", "l", "S", "c", "o", "r",
         "e", "\"", ":", "0", ",", "\"", "m", "a", "t", "c", "h", "e", "d",
         "S", "k", "i", "l", "l", "s", "\"", ":", "[", "]", ",", "\"", "m",
         "i", "s", "s", "i", "n", "g", "S", "k", "i", "l", "l", "s", "\"",
         ":", "[", "]", "}">>)
    @@
    ("Software Engineer" :>
       <<"S", "o", "f", "t", "w", "a", "r", "e", " ", "E", "n", "g", "i",
         "n", "e", "e", "r">>)
    @@
    ("Acme" :>
       <<"A", "c", "m", "e">>)
    @@
    ("Build with React and Node, remote friendly" :>
       <<"B", "u", "i", "l", "d", " ", "w", "i", "t", "h", " ", "R", "e",
         "a", "c", "t", " ", "a", "n", "d", " ", "N", "o", "d", "e", ",",
         " ", "r", "e", "m", "o", "t", "e", " ", "f", "r", "i", "e", "n",
         "d", "l", "y">>)
    @@
    ("Ada" :>
       <<"A", "d", "a">>)
    @@
    ("ada@acme.example" :>
       <<"a", "d", "a", "@", "a", "c", "m", "e", ".", "e", "x", "a", "m",
         "p", "l", "e">>)
    @@
    ("React and Node" :>
       <<"R", "e", "a", "c", "t", " ", "a", "n", "d", " ", "N", "o", "d",
         "e">>)
    @@
    ("\n" :>
       <<"\n">>)
    @@
    ("{\n  \"contacts\": []\n}\n" :>
       <<"{", "\n", " ", " ", "\"", "c", "o", "n", "t", "a", "c", "t", "s",
         "\"", ":", " ", "[", "]", "\n", "}", "\n">>)
    @@
    ("[1, 2]" :>
       <<"[", "1", ",", " ", "2", "]">>)
    @@
    ("Sure: " :>
       <<"S", "u", "r", "e", ":", " ">>)
    @@
    ("{" :>
       <<"{">>)
    @@
    (" Software Engineer, ,Designer" :>
       <<" ", "S", "o", "f", "t", "w", "a", "r", "e", " ", "E", "n", "g",
         "i", "n", "e", "e", "r", ",", " ", ",", "D", "e", "s", "i", "g",
         "n", "e", "r">>)
    @@
    ("San Francisco, CA" :>
       <<"S", "a", "n", " ", "F", "r", "a", "n", "c", "i", "s", "c", "o",
         ",", " ", "C", "A">>)
    @@
    ("Senior React Developer" :>
       <<"S", "e", "n", "i", "o", "r", " ", "R", "e", "a", "c", "t", " ",
         "D", "e", "v", "e", "l", "o", "p", "e", "r">>)
    @@
    ("Node Labs" :>
       <<"N", "o", "d", "e", " ", "L", "a", "b", "s">>)
    @@
    ("Remote" :>
       <<"R", "e", "m", "o", "t", "e">>)
    @@
    ("https://www.indeed.com/rc/clk?jk=a" :>
       <<"h", "t", "t", "p", "s", ":", "/", "/", "w", "w", "w", ".", "i",
         "n", "d", "e", "e", "d", ".", "c", "o", "m", "/", "r", "c", "/",
         "c", "l", "k", "?", "j", "k", "=", "a">>)
    @@
    ("https://www.indeed.com/rc/clk?jk=b" :>
       <<"h", "t", "t", "p", "s", ":", "/", "/", "w", "w", "w", ".", "i",
         "n", "d", "e", "e", "d", ".", "c", "o", "m", "/", "r", "c", "/",
         "c", "l", "k", "?", "j", "k", "=", "b">>)
    @@
    ("Python, Go, Rust, Java and Kotlin services" :>
       <<"P", "y", "t", "h", "o", "n", ",", " ", "G", "o", ",", " ", "R",
         "u", "s", "t", ",", " ", "J", "a", "v", "a", " ", "a", "n", "d",
         " ", "K", "o", "t", "l", "i", "n", " ", "s", "e", "r", "v", "i",
         "c", "e", "s">>)
    @@
    ("React,Node" :>
       <<"R", "e", "a", "c", "t", ",", "N", "o", "d", "e">>)
    @@
    ("remote" :>
       <<"r", "e", "m", "o", "t", "e">>)
    @@
    ("code-1" :>
       <<"c", "o", "d", "e", "-", "1">>)
    @@
    ("Application" :>
       <<"A", "p", "p", "l", "i", "c", "a", "t", "i", "o", "n">>)
    @@
    ("Hello" :>
       <<"H", "e", "l", "l", "o">>)
    @@
    ("Today" :>
       <<"T", "o", "d", "a", "y">>)
    @@
    ("Just posted" :>
       <<"J", "u", "s", "t", " ", "p", "o", "s", "t", "e", "d">>)
    @@
    ("Active" :>
       <<"A", "c", "t", "i", "v", "e">>)
    @@
    ("3" :>
       <<"3">>)
    @@
    ("12" :>
       <<"1", "2">>)
    @@
    ("999999999" :>
       <<"9", "9", "9", "9", "9", "9", "9", "9", "9">>)
    @@
    (" " :>
       <<" ">>)
    @@
    ("Days ago" :>
       <<"D", "a", "y", "s", " ", "a", "g", "o">>)
    @@
    ("hours ago" :>
       <<"h", "o", "u", "r", "s", " ", "a", "g", "o">>)
    @@
    ("30+" :>
       <<"3", "0", "+">>)
    @@
    ("day" :>
       <<"d", "a", "y">>)
    @@
    ("hour" :>
       <<"h", "o", "u", "r">>)
    @@
    ("today" :>
       <<"t", "o", "d", "a", "y">>)
    @@
    ("just posted" :>
       <<"j", "u", "s", "t", " ", "p", "o", "s", "t", "e", "d">>)
    @@
    ("active" :>
       <<"a", "c", "t", "i", "v", "e">>)
    @@
    ("&amp;" :>
       <<"&", "a", "m", "p", ";">>)
    @@
    ("&" :>
       <<"&">>)
    @@
    ("&lt;" :>
       <<"&", "l", "t", ";">>)
    @@
    ("<" :>
       <<"<">>)
    @@
    ("&gt;" :>
       <<"&", "g", "t", ";">>)
    @@
    (">" :>
       <<">">>)
    @@
    ("&nbsp;" :>
       <<"&", "n", "b", "s", "p", ";">>)
    @@
    ("https://www.indeed.com" :>
       <<"h", "t", "t", "p", "s", ":", "/", "/", "w", "w", "w", ".", "i",
         "n", "d", "e", "e", "d", ".", "c", "o", "m">>)
    @@
    ("https://www.indeed.com/viewjob?jk=" :>
       <<"h", "t", "t", "p", "s", ":", "/", "/", "w", "w", "w", ".", "i",
         "n", "d", "e", "e", "d", ".", "c", "o", "m", "/", "v", "i", "e",
         "w", "j", "o", "b", "?", "j", "k", "=">>)
    @@
    ("Senior <b>React</b>&nbsp;Developer" :>
       <<"S", "e", "n", "i", "o", "r", " ", "<", "b", ">", "R", "e", "a",
         "c", "t", "<", "/", "b", ">", "&", "n", "b", "s", "p", ";", "D",
         "e", "v", "e", "l", "o", "p", "e", "r">>)
    @@
    ("Acme &amp;\n  Co" :>
       <<"A", "c", "m", "e", " ", "&", "a", "m", "p", ";", "\n", " ", " ",
         "C", "o">>)
    @@
    (" Remote " :>
       <<" ", "R", "e", "m", "o", "t", "e", " ">>)
    @@
    ("/rc/clk?jk=a" :>
       <<"/", "r", "c", "/", "c", "l", "k", "?", "j", "k", "=", "a">>)
    @@
    ("/rc/clk?jk=b" :>
       <<"/", "r", "c", "/", "c", "l", "k", "?", "j", "k", "=", "b">>)
    @@
    ("<li>Build with React</li>" :>
       <<"<", "l", "i", ">", "B", "u", "i", "l", "d", " ", "w", "i", "t",
         "h", " ", "R", "e", "a", "c", "t", "<", "/", "l", "i", ">">>)
    @@
    ("Posted 3 days ago" :>
       <<"P", "o", "s", "t", "e", "d", " ", "3", " ", "d", "a", "y", "s",
         " ", "a", "g", "o">>)
    @@
    ("<span>&nbsp;</span>" :>
       <<"<", "s", "p", "a", "n", ">", "&", "n", "b", "s", "p", ";", "<",
         "/", "s", "p", "a", "n", ">">>)
    @@
    ("999999999 days ago" :>
       <<"9", "9", "9", "9", "9", "9", "9", "9", "9", " ", "d", "a", "y",
         "s", " ", "a", "g", "o">>)
    @@
    ("a" :>
       <<"a">>)
    @@
    ("https://acme.example/apply" :>
       <<"h", "t", "t", "p", "s", ":", "/", "/", "a", "c", "m", "e", ".",
         "e", "x", "a", "m", "p", "l", "e", "/", "a", "p", "p", "l", "y">>)
    @@
    ("Designer" :>
       <<"D", "e", "s", "i", "g", "n", "e", "r">>)
    @@
    (" Designer " :>
       <<" ", "D", "e", "s", "i", "g", "n", "e", "r", " ">>)
    @@
    ("QA" :>
       <<"Q", "A">>)
    @@
    ("DevOps" :>
       <<"D", "e", "v", "O", "p", "s">>)
    @@
    ("" :>
       <<>>)
    @@
    ("San Francisco, CA (Remote)" :>
       <<"S", "a", "n", " ", "F", "r", "a", "n", "c", "i", "s", "c", "o",
         ",", " ", "C", "A", " ", "(", "R", "e", "m", "o", "t", "e", ")">>)
    @@
    ("Designer, software engineer ,React" :>
       <<"D", "e", "s", "i", "g", "n", "e", "r", ",", " ", "s", "o", "f",
         "t", "w", "a", "r", "e", " ", "e", "n", "g", "i", "n", "e", "e",
         "r", " ", ",", "R", "e", "a", "c", "t">>)
    @@
    ("React,React,node" :>
       <<"R", "e", "a", "c", "t", ",", "R", "e", "a", "c", "t", ",", "n",
         "o", "d", "e">>)
    @@
    ("python,go,rust,java,kotlin,react" :>
       <<"p", "y", "t", "h", "o", "n", ",", "g", "o", ",", "r", "u", "s",
         "t", ",", "j", "a", "v", "a", ",", "k", "o", "t", "l", "i", "n",
         ",", "r", "e", "a", "c", "t">>)
    @@
    ("remote,friendly,build,with,and" :>
       <<"r", "e", "m", "o", "t", "e", ",", "f", "r", "i", "e", "n", "d",
         "l", "y", ",", "b", "u", "i", "l", "d", ",", "w", "i", "t", "h",
         ",", "a", "n", "d">>)
    @@
    ("San Francisco" :>
       <<"S", "a", "n", " ", "F", "r", "a", "n", "c", "i", "s", "c", "o">>)
    @@
    (",CA" :>
       <<",", "C", "A">>)

\* The characters of the text a state names
Text(k) == IF k = NullText THEN Null ELSE CharsOf[k]


\* ------------------------------------------------------------------------
\* State
\* ------------------------------------------------------------------------

\* calculateMatchScore: the posting and preferences under observation, the
\* results of the calls made with them, the result of the latest call made
\* with another input, and the number of calls made
VARIABLES scoreIn, scoreOut, scoreOther, scoreCalls

scoreVars == <<scoreIn, scoreOut, scoreOther, scoreCalls>>

\* the deduplication step: the gathered list, the result, and whether the
\* step has run
VARIABLES dedupIn, dedupOut, dedupDone

dedupVars == <<dedupIn, dedupOut, dedupDone>>

\* parseRelativeDate: the phrase (a sequence of fragments), the clock's
\* reading, and the outcome (<<>> before the call)
VARIABLES dateIn, dateNow, dateOut

dateVars == <<dateIn, dateNow, dateOut>>

\* parseIndeedHTML: the document, the postings returned, and whether the
\* call has been made
VARIABLES parseIn, parseOut, parseDone

parseVars == <<parseIn, parseOut, parseDone>>

\* the AI endpoint: the request with the outcome the completion call has
\* if it is made, and the response (<<>> before it)
VARIABLES aiIn, aiOut

aiVars == <<aiIn, aiOut>>

\* the serving process and its stores: the clock, the throttle cache of
\* api/jobs.js, the jobs, gmail_tokens and applications tables, the
\* credentials of the OAuth client of api/email.js and the mails sent; the
\* number of requests served and the latest request's outcome; and, as
\* history, each user's latest completed discovery run (its upstream results
\* with the user's rows after it, and its time of completion), what the
\* latest step sent to the mail endpoint and got back, if it served it, and
\* the state parameter and the outcome of the code exchange of the OAuth
\* callback the latest step served, if it served one
VARIABLES clock, requestCache, jobsTable, gmail_tokens, applications, credentials, outbox, handled, last, lastRun, completedAt, lastSend, lastCallback

svcVars == <<clock, requestCache, jobsTable, gmail_tokens, applications, credentials, outbox, handled, last, lastRun, completedAt, lastSend, lastCallback>>

\* discovery requests in flight together: the clock, the throttle cache and
\* the jobs table they share, and each request's handler
VARIABLES raceClock, raceCache, raceJobs, raceRuns

raceVars == <<raceClock, raceCache, raceJobs, raceRuns>>

\* marking postings as applied: the rows of the applications table, the
\* state of each open session, and the number of clicks made
VARIABLES appRows, appSessions, appClicks

applyVars == <<appRows, appSessions, appClicks>>

\* the roles of a discovery run: the roles of the request's preferences,
\* and rolesToSearch (<<>> before it is computed)
VARIABLES rolesIn, rolesOut

rolesVars == <<rolesIn, rolesOut>>

\* send requests in flight together: the credentials held by the module's
\* OAuth client, each request's handler, and the mails sent with the account
\* each was sent from
VARIABLES sendClient, sendReqs, sendOutbox

sendVars == <<sendClient, sendReqs, sendOutbox>>

vars == <<scoreVars, dedupVars, dateVars, parseVars, aiVars, svcVars, raceVars, applyVars, rolesVars, sendVars>>

\* Everything but the score variables
scoreOnly ==
    UNCHANGED <<dedupVars, dateVars, parseVars, aiVars, svcVars, raceVars, applyVars, rolesVars, sendVars>>

\* Everything but the dedup variables
dedupOnly ==
    UNCHANGED <<scoreVars, dateVars, parseVars, aiVars, svcVars, raceVars, applyVars, rolesVars, sendVars>>

\* Everything but the date variables
dateOnly ==
    UNCHANGED <<scoreVars, dedupVars, parseVars, aiVars, svcVars, raceVars, applyVars, rolesVars, sendVars>>

\* Everything but the parse variables
parseOnly ==
    UNCHANGED <<scoreVars, dedupVars, dateVars, aiVars, svcVars, raceVars, applyVars, rolesVars, sendVars>>

\* Everything but the ai variables
aiOnly ==
    UNCHANGED <<scoreVars, dedupVars, dateVars, parseVars, svcVars, raceVars, applyVars, rolesVars, sendVars>>

\* Everything but the svc variables
svcOnly ==
    UNCHANGED <<scoreVars, dedupVars, dateVars, parseVars, aiVars, raceVars, applyVars, rolesVars, sendVars>>

\* Everything but the race variables
raceOnly ==
    UNCHANGED <<scoreVars, dedupVars, dateVars, parseVars, aiVars, svcVars, applyVars, rolesVars, sendVars>>

\* Everything but the apply variables
applyOnly ==
    UNCHANGED <<scoreVars, dedupVars, dateVars, parseVars, aiVars, svcVars, raceVars, rolesVars, sendVars>>

\* Everything but the roles variables
rolesOnly ==
    UNCHANGED <<scoreVars, dedupVars, dateVars, parseVars, aiVars, svcVars, raceVars, applyVars, sendVars>>

\* Everything but the send variables
sendOnly ==
    UNCHANGED <<scoreVars, dedupVars, dateVars, parseVars, aiVars, svcVars, raceVars, applyVars, rolesVars>>
\* ------------------------------------------------------------------------
\* Match scoring (api/jobs.js, calculateMatchScore)
\* ------------------------------------------------------------------------

MaxScoreCalls == 3

\* `${job.title} ${job.company} ${job.descriptionSnippet}`.toLowerCase()
JobText(job) ==
    ToLowerCase(job.title \o <<" ">> \o job.company \o <<" ">>
                    \o job.descriptionSnippet)

\* The same without toLowerCase
PreferenceTerms_CaseSensitive(field) == MapTrim(Split(OrEmpty(field), ","))

\* (field || '').toLowerCase().split(',').map(x => x.trim())
PreferenceTerms(field) == MapTrim(Split(ToLowerCase(OrEmpty(field)), ","))

\* The entries of a preference list that are non-empty and occur in the text
MatchingEntries(terms, text) ==
    {i \in DOMAIN terms : terms[i] # <<>> /\ Includes(text, terms[i])}

\* +20 at every role that matches, without the break
RoleBonus_PerRole(job, preferences) ==
    Cardinality(MatchingEntries(PreferenceTerms(preferences.roles),
                                JobText(job))) * 20

\* +20 at the first role that matches, then break
RoleBonus(job, preferences) ==
    IF MatchingEntries(PreferenceTerms(preferences.roles), JobText(job)) # {}
    THEN 20
    ELSE 0

\* techMatches++ per matching entry; Math.min(techMatches * 5, 20)
TechBonus(job, preferences) ==
    Min(Cardinality(MatchingEntries(PreferenceTerms(preferences.techStack),
                                    JobText(job))) * 5,
        20)

\* score += 5 per matching keyword entry
KeywordBonus(job, preferences) ==
    Cardinality(MatchingEntries(PreferenceTerms(preferences.keywords),
                                JobText(job))) * 5

\* if (preferences.location && job.location): both location tests sit inside
LocationGate(job, preferences) ==
    Truthy(preferences.location) /\ Truthy(job.location)

\* +10 when the posting's location contains the first comma-delimited
\* segment of the preferred location (not trimmed)
PreferredLocationBonus(job, preferences) ==
    IF /\ LocationGate(job, preferences)
       /\ Includes(ToLowerCase(job.location),
                   Split(ToLowerCase(preferences.location), ",")[1])
    THEN 10
    ELSE 0

\* +5 when the posting's location contains 'remote'
RemoteBonus(job, preferences) ==
    IF /\ LocationGate(job, preferences)
       /\ Includes(ToLowerCase(job.location), Text("remote"))
    THEN 5
    ELSE 0

RawScore(job, preferences) ==
    50 + RoleBonus(job, preferences) + TechBonus(job, preferences)
       + KeywordBonus(job, preferences)
       + PreferredLocationBonus(job, preferences)
       + RemoteBonus(job, preferences)

\* The score without the final clamp
calculateMatchScore_Unclamped(job, preferences) == RawScore(job, preferences)

\* Math.min(100, Math.max(0, score))
calculateMatchScore(job, preferences) ==
    Min(100, Max(0, RawScore(job, preferences)))

\* The posting and the preferences a state names by their texts
JobOf(j) ==
    [title |-> Text(j.title), company |-> Text(j.company),
     descriptionSnippet |-> Text(j.descriptionSnippet),
     location |-> Text(j.location)]

PreferencesOf(p) ==
    [roles |-> Text(p.roles), techStack |-> Text(p.techStack),
     keywords |-> Text(p.keywords), location |-> Text(p.location)]

ScoreJobs ==
    [title : {"Software Engineer", "Senior React Developer"},
     company : {"Acme", "Node Labs"},
     descriptionSnippet : {"Build with React and Node, remote friendly",
                           "Python, Go, Rust, Java and Kotlin services"},
     location : {"Remote", "San Francisco, CA", "San Francisco, CA (Remote)",
                 ""}]

ScorePreferences ==
    [roles : {NullText, "Software Engineer",
              "Designer, software engineer ,React"},
     techStack : {NullText, "React,Node", "React,React,node",
                  "python,go,rust,java,kotlin,react"},
     keywords : {NullText, "remote", "remote,friendly,build,with,and"},
     location : {NullText, "San Francisco", ",CA"}]

\* The scenario of the specification's section 8
ScenarioJob ==
    [title |-> "Software Engineer", company |-> "Acme",
     descriptionSnippet |-> "Build with React and Node, remote friendly",
     location |-> "Remote"]

ScenarioPreferences ==
    [roles |-> "Software Engineer", techStack |-> "React,Node",
     keywords |-> "remote", location |-> "San Francisco"]

\* The input of the calls made in between
OtherScoreInput ==
    [job |-> [ScenarioJob EXCEPT !.location = "San Francisco, CA (Remote)"],
     preferences |-> [ScenarioPreferences EXCEPT
                         !.keywords = "remote,friendly,build,with,and"]]

ScoreIdle ==
    /\ scoreIn = [job |-> ScenarioJob, preferences |-> ScenarioPreferences]
    /\ scoreOut = <<>>
    /\ scoreOther = <<>>
    /\ scoreCalls = 0

ScoreInit ==
    /\ scoreIn \in [job : ScoreJobs, preferences : ScorePreferences]
    /\ scoreOut = <<>>
    /\ scoreOther = <<>>
    /\ scoreCalls = 0

\* A call of calculateMatchScore with the input under observation
ScoreCall ==
    /\ scoreCalls < MaxScoreCalls
    /\ scoreOut' = Append(scoreOut,
                          calculateMatchScore(JobOf(scoreIn.job),
                                              PreferencesOf(scoreIn.preferences)))
    /\ scoreCalls' = scoreCalls + 1
    /\ UNCHANGED <<scoreIn, scoreOther>>
    /\ scoreOnly

\* A call of calculateMatchScore with another input
ScoreOtherCall ==
    /\ scoreCalls < MaxScoreCalls
    /\ scoreOther' = <<calculateMatchScore(
                            JobOf(OtherScoreInput.job),
                            PreferencesOf(OtherScoreInput.preferences))>>
    /\ scoreCalls' = scoreCalls + 1
    /\ UNCHANGED <<scoreIn, scoreOut>>
    /\ scoreOnly

ScoreNext == ScoreCall \/ ScoreOtherCall

C6_ScenarioScores90 ==
    (scoreIn = [job |-> ScenarioJob, preferences |-> ScenarioPreferences]
        /\ scoreOut # <<>>)
    => /\ scoreOut[1] = 90
       /\ RoleBonus(JobOf(ScenarioJob),
                    PreferencesOf(ScenarioPreferences)) = 20
       /\ TechBonus(JobOf(ScenarioJob),
                    PreferencesOf(ScenarioPreferences)) = 10
       /\ KeywordBonus(JobOf(ScenarioJob),
                    PreferencesOf(ScenarioPreferences)) = 5
       /\ RemoteBonus(JobOf(ScenarioJob),
                    PreferencesOf(ScenarioPreferences)) = 5
       /\ PreferredLocationBonus(JobOf(ScenarioJob),
                    PreferencesOf(ScenarioPreferences)) = 0

C6_Witness ==
    /\ scoreIn = [job |-> ScenarioJob, preferences |-> ScenarioPreferences]
    /\ scoreOut # <<>>
    /\ scoreOut[1] = 90

\* The posting and the preferences of the call under observation
ScoredJob == JobOf(scoreIn.job)

ScoredPreferences == PreferencesOf(scoreIn.preferences)

\* The entries of the roles, the tech stack and the keywords that occur in
\* the corpus of the call under observation
RolesFound ==
    MatchingEntries(PreferenceTerms(ScoredPreferences.roles),
                    JobText(ScoredJob))

TechFound ==
    MatchingEntries(PreferenceTerms(ScoredPreferences.techStack),
                    JobText(ScoredJob))

KeywordsFound ==
    MatchingEntries(PreferenceTerms(ScoredPreferences.keywords),
                    JobText(ScoredJob))

\* C21: the role bonus is exactly 20 as soon as one role of the preferences
\* occurs in the case-folded corpus, however many roles occur, and every
\* keyword entry that occurs adds 5, with no cap other than the final clamp
\* to 100.
C21_RoleOnceKeywordsEach ==
    scoreOut # <<>>
    => scoreOut[1] =
          Min(100,
              50 + (IF RolesFound # {} THEN 20 ELSE 0)
                 + 5 * Cardinality(KeywordsFound)
                 + TechBonus(ScoredJob, ScoredPreferences)
                 + PreferredLocationBonus(ScoredJob, ScoredPreferences)
                 + RemoteBonus(ScoredJob, ScoredPreferences))

\* Two roles and five keywords occur in the corpus: 50 + 20 + 5 * 5 = 95
C21_Witness ==
    /\ scoreOut # <<>>
    /\ Cardinality(RolesFound) = 2
    /\ Cardinality(KeywordsFound) = 5
    /\ scoreOut[1] = 95

\* C22: the tech-stack bonus is 5 times the number of distinct tech-stack
\* terms that occur in the corpus, capped at 20: a term listed twice counts
\* once, and a fifth distinct term adds nothing.
C22_DistinctTechTermsCapped ==
    scoreOut # <<>>
    => scoreOut[1] =
          Min(100,
              50 + RoleBonus(ScoredJob, ScoredPreferences)
                 + Min(20,
                       5 * Cardinality(
                              {PreferenceTerms(ScoredPreferences.techStack)[i] :
                                  i \in TechFound}))
                 + KeywordBonus(ScoredJob, ScoredPreferences)
                 + PreferredLocationBonus(ScoredJob, ScoredPreferences)
                 + RemoteBonus(ScoredJob, ScoredPreferences))

\* C23: the remote bonus of 5 is added whenever the posting's location
\* contains "remote" (case-folded), whether or not the preferred-location
\* bonus applies and whether or not a preferred location is set.
C23_RemoteBonusIndependent ==
    scoreOut # <<>>
    => scoreOut[1] =
          Min(100,
              50 + RoleBonus(ScoredJob, ScoredPreferences)
                 + TechBonus(ScoredJob, ScoredPreferences)
                 + KeywordBonus(ScoredJob, ScoredPreferences)
                 + PreferredLocationBonus(ScoredJob, ScoredPreferences)
                 + (IF Includes(ToLowerCase(ScoredJob.location),
                                Text("remote"))
                    THEN 5
                    ELSE 0))

\* ------------------------------------------------------------------------
\* Deduplication by link (api/jobs.js, discoverJobsFromIndeed, lines 126-131)
\* ------------------------------------------------------------------------

MaxListLen == 4

\* self.findLastIndex(otherJob => otherJob.link === link), 1-based
FindLastIndex(self, link) ==
    IF \E i \in DOMAIN self : self[i].link = link
    THEN CHOOSE i \in DOMAIN self :
            /\ self[i].link = link
            /\ \A j \in (i + 1)..Len(self) : self[j].link # link
    ELSE 0

\* self.findIndex(otherJob => otherJob.link === link), 1-based; 0 for -1
RECURSIVE FindIndexFrom(_, _, _)
FindIndexFrom(self, link, i) ==
    IF i > Len(self)
    THEN 0
    ELSE IF self[i].link = link THEN i ELSE FindIndexFrom(self, link, i + 1)

FindIndex(self, link) == FindIndexFrom(self, link, 1)

\* allJobs.filter((job, index, self) => index === self.findIndex(...)),
\* from index i on
RECURSIVE FilterFirstFrom(_, _)
FilterFirstFrom(self, i) ==
    IF i > Len(self)
    THEN <<>>
    ELSE (IF i = FindIndex(self, self[i].link) THEN <<self[i]>> ELSE <<>>)
            \o FilterFirstFrom(self, i + 1)

\* The filter keeping the last occurrence of each link
RECURSIVE FilterLastFrom(_, _)
FilterLastFrom(self, i) ==
    IF i > Len(self)
    THEN <<>>
    ELSE (IF i = FindLastIndex(self, self[i].link) THEN <<self[i]>> ELSE <<>>)
            \o FilterLastFrom(self, i + 1)

UniqueJobs_KeepLast(allJobs) == FilterLastFrom(allJobs, 1)

\* const uniqueJobs = allJobs.filter(...)
UniqueJobs(allJobs) == FilterFirstFrom(allJobs, 1)

\* Postings that differ in more than their link
DedupPostings ==
    [title : {"Software Engineer", "Senior React Developer"},
     company : {"Acme"},
     location : {"Remote"},
     link : {"", "https://www.indeed.com/rc/clk?jk=a",
             "https://www.indeed.com/rc/clk?jk=b"},
     descriptionSnippet : {""}]

DedupIdle ==
    /\ dedupIn = <<>>
    /\ dedupOut = <<>>
    /\ dedupDone = FALSE

DedupInit ==
    /\ dedupIn \in SeqsUpTo(DedupPostings, MaxListLen)
    /\ dedupOut = <<>>
    /\ dedupDone = FALSE

\* The deduplication step on the gathered list
Deduplicate ==
    /\ ~dedupDone
    /\ dedupOut' = UniqueJobs(dedupIn)
    /\ dedupDone' = TRUE
    /\ UNCHANGED dedupIn
    /\ dedupOnly

DedupNext == Deduplicate

\* The 1-based position of the first element of list with this link
FirstWithLink(list, link) ==
    CHOOSE i \in DOMAIN list :
        /\ list[i].link = link
        /\ \A j \in 1..(i - 1) : list[j].link # link

\* C1: the deduplicated list has no two elements with the same link, holds
\* every distinct link of the input exactly once, keeps for each link its
\* first occurrence in the input, and keeps the elements in the order of
\* their first occurrences.
C1_DedupKeepsFirstOccurrences ==
    dedupDone =>
        /\ \A i, j \in DOMAIN dedupOut :
              i # j => dedupOut[i].link # dedupOut[j].link
        /\ {dedupOut[i].link : i \in DOMAIN dedupOut}
              = {dedupIn[i].link : i \in DOMAIN dedupIn}
        /\ \A k \in DOMAIN dedupOut :
              dedupOut[k] = dedupIn[FirstWithLink(dedupIn, dedupOut[k].link)]
        /\ \A k, m \in DOMAIN dedupOut :
              k < m => FirstWithLink(dedupIn, dedupOut[k].link)
                          < FirstWithLink(dedupIn, dedupOut[m].link)

\* A list in which a link occurs twice with different postings, between
\* occurrences of another link, has been deduplicated.
C1_Witness ==
    /\ dedupDone
    /\ Len(dedupIn) = 4
    /\ Len(dedupOut) = 2
    /\ dedupIn[1].link = dedupIn[3].link
    /\ dedupIn[1] # dedupIn[3]
    /\ dedupIn[2].link = dedupIn[4].link
    /\ dedupIn[1].link # dedupIn[2].link

\* ------------------------------------------------------------------------
\* Relative dates (api/jobs.js, parseRelativeDate)
\* ------------------------------------------------------------------------
\* A Date is modelled by its day number since the epoch and its hour of the
\* day; the minutes and below are left alone by setDate and setHours.  Local
\* time is UTC, as in the serverless runtime.

MaxPhraseParts == 3

\* The longest digit run parseInt is applied to
MaxDigits == 9

\* A time value is valid up to 8.64e15 ms, that is 100,000,000 days, either
\* side of the epoch; toISOString throws a RangeError on an invalid Date.
MaxDateDays == 100 * 1000 * 1000

\* The fragments the phrases are made of
DateFragments ==
    {"Today", "Just posted", "Active", "3", "12", "999999999", " ",
     "Days ago", "hours ago", "30+"}

\* The characters of a sequence of fragments
RECURSIVE Flatten(_)
Flatten(parts) ==
    IF parts = <<>> THEN <<>> ELSE Text(Head(parts)) \o Flatten(Tail(parts))

\* The end of the digit run that starts at position i
RECURSIVE DigitsEnd(_, _)
DigitsEnd(s, i) ==
    IF i < Len(s) /\ IsDigit(s[i + 1]) THEN DigitsEnd(s, i + 1) ELSE i

\* The first position from i on that holds no white space
RECURSIVE SkipSpaces(_, _)
SkipSpaces(s, i) ==
    IF i <= Len(s) /\ IsSpace(s[i]) THEN SkipSpaces(s, i + 1) ELSE i

LongestDigitRun(s) ==
    LET runs == {DigitsEnd(s, i) - i + 1 : i \in {j \in DOMAIN s : IsDigit(s[j])}}
    IN  IF runs = {} THEN 0 ELSE CHOOSE n \in runs : \A m \in runs : m <= n

DigitValue(c) ==
    CASE c = "0" -> 0 [] c = "1" -> 1 [] c = "2" -> 2 [] c = "3" -> 3
      [] c = "4" -> 4 [] c = "5" -> 5 [] c = "6" -> 6 [] c = "7" -> 7
      [] c = "8" -> 8 [] c = "9" -> 9

\* parseInt on a run of decimal digits
RECURSIVE ParseInt(_)
ParseInt(ds) ==
    IF ds = <<>>
    THEN 0
    ELSE ParseInt(SubSeq(ds, 1, Len(ds) - 1)) * 10 + DigitValue(ds[Len(ds)])

\* text.match(/(\d+)\s*unit/): the digits captured by the leftmost match
\* from position i on, <<>> when there is no match.  A match that starts
\* inside a digit run starts at the run's first digit, and \d+ takes the
\* whole run.
RECURSIVE CountBefore(_, _, _)
CountBefore(s, unit, i) ==
    IF i > Len(s)
    THEN <<>>
    ELSE IF IsDigit(s[i])
         THEN LET e == DigitsEnd(s, i)
              IN  IF MatchesAt(s, SkipSpaces(s, e + 1), unit)
                  THEN SubSeq(s, i, e)
                  ELSE CountBefore(s, unit, e + 1)
         ELSE CountBefore(s, unit, i + 1)

\* new Date(): the clock's reading
DateOf(now) == [kind |-> "date", day |-> now.day, hour |-> now.hour]

RangeError == [kind |-> "RangeError", day |-> 0, hour |-> 0]

\* date.toISOString()
ToISOString(date) ==
    IF date.day < -MaxDateDays \/ date.day > MaxDateDays
    THEN RangeError
    ELSE date

\* today.setDate(today.getDate() - daysAgo)
MinusDays(date, daysAgo) == [date EXCEPT !.day = date.day - daysAgo]

\* today.setHours(today.getHours() - hoursAgo)
MinusHours(date, hoursAgo) ==
    LET total == date.day * 24 + date.hour - hoursAgo
    IN  [date EXCEPT !.day = total \div 24, !.hour = total % 24]

parseRelativeDate(dateText, now) ==
    LET today     == DateOf(now)
        lowerText == ToLowerCase(dateText)
        daysMatch  == CountBefore(lowerText, Text("day"), 1)
        hoursMatch == CountBefore(lowerText, Text("hour"), 1)
    IN  IF \/ Includes(lowerText, Text("today"))
           \/ Includes(lowerText, Text("just posted"))
           \/ Includes(lowerText, Text("active"))
        THEN ToISOString(today)
        ELSE IF daysMatch # <<>>
        THEN ToISOString(MinusDays(today, ParseInt(daysMatch)))
        ELSE IF hoursMatch # <<>>
        THEN ToISOString(MinusHours(today, ParseInt(hoursMatch)))
        ELSE ToISOString(DateOf(now))

\* The phrases: up to MaxPhraseParts fragments, with counts of up to
\* MaxDigits digits
DatePhrases ==
    {p \in SeqsUpTo(DateFragments, MaxPhraseParts) :
        LongestDigitRun(Flatten(p)) <= MaxDigits}

\* Clock readings: mid-afternoon, and one hour after midnight
DateClocks == {[day |-> 20762, hour |-> 15], [day |-> 20762, hour |-> 1]}

DateIdle ==
    /\ dateIn = <<>>
    /\ dateNow = [day |-> 20762, hour |-> 15]
    /\ dateOut = <<>>

DateInit ==
    /\ dateIn \in DatePhrases
    /\ dateNow \in DateClocks
    /\ dateOut = <<>>

\* A call of parseRelativeDate
ResolveDate ==
    /\ dateOut = <<>>
    /\ dateOut' = <<parseRelativeDate(Flatten(dateIn), dateNow)>>
    /\ UNCHANGED <<dateIn, dateNow>>
    /\ dateOnly

DateNext == ResolveDate

\* The phrase under resolution, case-folded
DatePhrase == ToLowerCase(Flatten(dateIn))

MeansNow ==
    \/ Includes(DatePhrase, Text("today"))
    \/ Includes(DatePhrase, Text("just posted"))
    \/ Includes(DatePhrase, Text("active"))

\* C8: with the priority order today / just posted / active, then N day(s),
\* then N hour(s), then the default, every phrase resolves to a date: now,
\* now minus N days, now minus N hours, or now; no phrase produces an error.
C8_DateRulesInPriorityOrder ==
    dateOut # <<>> =>
        LET days  == CountBefore(DatePhrase, Text("day"), 1)
            hours == CountBefore(DatePhrase, Text("hour"), 1)
        IN  /\ dateOut[1].kind = "date"
            /\ MeansNow => dateOut[1] = DateOf(dateNow)
            /\ (~MeansNow /\ days # <<>>) =>
                  /\ dateOut[1].day = dateNow.day - ParseInt(days)
                  /\ dateOut[1].hour = dateNow.hour
            /\ (~MeansNow /\ days = <<>> /\ hours # <<>>) =>
                  dateOut[1].day * 24 + dateOut[1].hour
                     = dateNow.day * 24 + dateNow.hour - ParseInt(hours)
            /\ (~MeansNow /\ days = <<>> /\ hours = <<>>) =>
                  dateOut[1] = DateOf(dateNow)

\* ------------------------------------------------------------------------
\* Extraction (api/jobs.js, parseIndeedHTML, extractJobDataFromCard,
\* parseIndeedAlternative, cleanText)
\* ------------------------------------------------------------------------
\* A document is modelled by what the patterns of the source find in it:
\* the job cards the card pattern matches, in order, each with the text each
\* field pattern captures in it (NullText where the pattern does not match),
\* and the embedded data the script pattern finds.

MaxCards == 2

MaxResults == 2

\* .replace(/<[^>]+>/g, ''): a tag is '<', at least one character other
\* than '>', and '>'
RECURSIVE RemoveTags(_)
RemoveTags(s) ==
    IF s = <<>>
    THEN <<>>
    ELSE IF Head(s) = "<" /\ IndexFrom(s, <<">">>, 2) > 2
         THEN RemoveTags(SubSeq(s, IndexFrom(s, <<">">>, 2) + 1, Len(s)))
         ELSE <<Head(s)>> \o RemoveTags(Tail(s))

\* s.replace(/p/g, r) for a literal p: every occurrence, left to right
RECURSIVE ReplaceAll(_, _, _)
ReplaceAll(s, p, r) ==
    LET at == IndexOf(s, p)
    IN  IF at = 0
        THEN s
        ELSE SubSeq(s, 1, at - 1) \o r
                \o ReplaceAll(SubSeq(s, at + Len(p), Len(s)), p, r)

\* .replace(/\s+/g, ' ')
RECURSIVE CollapseSpaces(_)
CollapseSpaces(s) ==
    IF s = <<>>
    THEN <<>>
    ELSE IF IsSpace(Head(s))
         THEN <<" ">> \o CollapseSpaces(SubSeq(s, SkipSpaces(s, 1), Len(s)))
         ELSE <<Head(s)>> \o CollapseSpaces(Tail(s))

cleanText(rawText) ==
    Trim(CollapseSpaces(
        ReplaceAll(
            ReplaceAll(
                ReplaceAll(
                    ReplaceAll(RemoveTags(rawText), Text("&amp;"), Text("&")),
                    Text("&lt;"), Text("<")),
                Text("&gt;"), Text(">")),
            Text("&nbsp;"), Text(" "))))

\* match?.[1] || ''
Captured(k) == OrEmpty(Text(k))

\* The outcome of a call that throws; a call that returns x has outcome <<x>>
Thrown == <<>>

\* extractJobDataFromCard: the posting returned, or Thrown when
\* parseRelativeDate throws
extractJobDataFromCard(card, now) ==
    LET relativeLink == Captured(card.href)
        postedDate   == parseRelativeDate(cleanText(Captured(card.date)), now)
    IN  IF postedDate.kind = "RangeError"
        THEN Thrown
        ELSE <<[title |-> cleanText(Captured(card.title)),
                company |-> cleanText(Captured(card.company)),
                location |-> cleanText(Captured(card.location)),
                link |-> IF relativeLink # <<>>
                         THEN Text("https://www.indeed.com") \o relativeLink
                         ELSE <<>>,
                descriptionSnippet |-> cleanText(Captured(card.snippet)),
                postedDate |-> postedDate,
                source |-> "Indeed"]>>

\* a || b on text keys
Or(a, b) == IF Truthy(Text(a)) THEN Text(a) ELSE Text(b)

\* result.pubDate ? new Date(result.pubDate).toISOString()
\*                : new Date().toISOString()
PubDate(result, now) ==
    CASE result.pubDate = "absent"  -> DateOf(now)
      [] result.pubDate = "valid"   -> DateOf([day |-> now.day - 1, hour |-> 0])
      [] result.pubDate = "invalid" -> RangeError

\* The posting pushed for one entry of the embedded results, or Thrown: the
\* entry is null, or its pubDate is no date
AlternativeJob(result, now) ==
    IF result.isNull \/ PubDate(result, now).kind = "RangeError"
    THEN Thrown
    ELSE <<[title |-> IF Truthy(Or(result.displayTitle, result.title))
                      THEN Or(result.displayTitle, result.title)
                      ELSE <<>>,
            company |-> OrEmpty(Text(result.company)),
            location |->
                IF Truthy(Or(result.formattedLocation, result.location))
                THEN Or(result.formattedLocation, result.location)
                ELSE <<>>,
            link |-> IF Truthy(Text(result.thirdPartyApplyUrl))
                     THEN Text(result.thirdPartyApplyUrl)
                     ELSE Text("https://www.indeed.com/viewjob?jk=")
                              \o (IF result.jobkey = NullText
                                  THEN Text("undefined")
                                  ELSE Text(result.jobkey)),
            descriptionSnippet |->
                IF Truthy(Or(result.snippet, result.displaySnippet))
                THEN Or(result.snippet, result.displaySnippet)
                ELSE <<>>,
            postedDate |-> PubDate(result, now),
            source |-> "Indeed"]>>

\* The loop over jobResults without slice(0, 20)
RECURSIVE AlternativeJobsFrom_NoSlice(_, _, _)
AlternativeJobsFrom_NoSlice(results, i, now) ==
    IF i > Len(results)
    THEN <<>>
    ELSE IF AlternativeJob(results[i], now) = Thrown
         THEN <<>>
         ELSE AlternativeJob(results[i], now)
                 \o AlternativeJobsFrom_NoSlice(results, i + 1, now)

\* The loop over jobResults.slice(0, 20): a throw ends it, and the catch
\* keeps what was pushed before
RECURSIVE AlternativeJobsFrom(_, _, _)
AlternativeJobsFrom(results, i, now) ==
    IF i > Len(results) \/ i > 20
    THEN <<>>
    ELSE IF AlternativeJob(results[i], now) = Thrown
         THEN <<>>
         ELSE AlternativeJob(results[i], now)
                 \o AlternativeJobsFrom(results, i + 1, now)

\* parseIndeedAlternative: no embedded data, data JSON.parse rejects, or
\* the parsed results
parseIndeedAlternative(htmlContent, now) ==
    IF htmlContent.blob.kind \in {"absent", "unparseable"}
    THEN <<>>
    ELSE AlternativeJobsFrom(htmlContent.blob.results, 1, now)

\* The loop over the cards with the try of lines 173-181 around the loop
\* instead of inside it: a card that throws ends the batch
RECURSIVE CardJobsFrom_AbortAtThrow(_, _, _)
CardJobsFrom_AbortAtThrow(cards, i, now) ==
    IF i > Len(cards) \/ i > 20
    THEN <<>>
    ELSE LET parsedJob == extractJobDataFromCard(cards[i], now)
         IN  IF parsedJob = Thrown
             THEN <<>>
             ELSE (IF /\ parsedJob[1].title # <<>>
                      /\ parsedJob[1].company # <<>>
                   THEN parsedJob
                   ELSE <<>>)
                     \o CardJobsFrom_AbortAtThrow(cards, i + 1, now)

\* The loop over jobCardMatches.slice(0, 20): a card that throws, or has no
\* title or no company, is skipped
RECURSIVE CardJobsFrom(_, _, _)
CardJobsFrom(cards, i, now) ==
    IF i > Len(cards) \/ i > 20
    THEN <<>>
    ELSE LET parsedJob == extractJobDataFromCard(cards[i], now)
         IN  (IF /\ parsedJob # Thrown
                 /\ parsedJob[1].title # <<>>
                 /\ parsedJob[1].company # <<>>
              THEN parsedJob
              ELSE <<>>)
                \o CardJobsFrom(cards, i + 1, now)

parseIndeedHTML(htmlContent, now) ==
    LET jobs == CardJobsFrom(htmlContent.cards, 1, now)
    IN  IF jobs = <<>>
        THEN parseIndeedAlternative(htmlContent, now)
        ELSE jobs

\* A card with every field, its title and company marked up
FullCard ==
    [title |-> "Senior <b>React</b>&nbsp;Developer",
     company |-> "Acme &amp;\n  Co", location |-> " Remote ",
     href |-> "/rc/clk?jk=a", snippet |-> "<li>Build with React</li>",
     date |-> "Posted 3 days ago"]

\* The cards of the catalogue: complete, without a link the link pattern
\* matches, without a title, with a title that cleans to nothing, and with
\* a date no Date can hold
ParseCards ==
    {FullCard,
     [FullCard EXCEPT !.href = NullText, !.date = NullText],
     [FullCard EXCEPT !.title = NullText],
     [FullCard EXCEPT !.title = "<span>&nbsp;</span>"],
     [FullCard EXCEPT !.date = "999999999 days ago", !.href = "/rc/clk?jk=b"]}

FullResult ==
    [isNull |-> FALSE, displayTitle |-> "Software Engineer", title |-> NullText,
     company |-> "Acme", formattedLocation |-> "Remote", location |-> NullText,
     thirdPartyApplyUrl |-> NullText, jobkey |-> "a", snippet |-> NullText,
     displaySnippet |-> "", pubDate |-> "valid"]

\* The entries of the embedded results: complete, with an apply URL of its
\* own, without title, company and job key, null, and with a pubDate that
\* is no date
ParseResults ==
    {FullResult,
     [FullResult EXCEPT !.thirdPartyApplyUrl = "https://acme.example/apply",
                        !.pubDate = "absent"],
     [FullResult EXCEPT !.displayTitle = NullText, !.company = NullText,
                        !.jobkey = NullText],
     [FullResult EXCEPT !.isNull = TRUE],
     [FullResult EXCEPT !.pubDate = "invalid"]}

ParseBlobs ==
    {[kind |-> "absent", results |-> <<>>],
     [kind |-> "unparseable", results |-> <<>>]}
    \cup [kind : {"parsed"}, results : SeqsUpTo(ParseResults, MaxResults)]

ParseDocuments == [cards : SeqsUpTo(ParseCards, MaxCards), blob : ParseBlobs]

\* Documents with more fragments than the 20 the loops take: the cards and
\* the results after the twentieth differ from those before, and some of
\* the cards before are without a title
LateCard == [FullCard EXCEPT !.href = "/rc/clk?jk=b"]

LateResult ==
    [FullResult EXCEPT !.thirdPartyApplyUrl = "https://acme.example/apply",
                       !.pubDate = "absent"]

LongLengths == {20, 21, 22}

LongCards(n, untitled) ==
    [i \in 1..n |->
        IF i \in untitled
        THEN [FullCard EXCEPT !.title = NullText]
        ELSE IF i > 20 THEN LateCard ELSE FullCard]

LongResults(n) == [i \in 1..n |-> IF i > 20 THEN LateResult ELSE FullResult]

LongDocuments ==
    {[cards |-> LongCards(n, untitled),
      blob |-> [kind |-> "parsed", results |-> LongResults(m)]] :
        n \in LongLengths, m \in LongLengths,
        untitled \in {{}, {1}, {1, 2, 20}, 1..20}}

ParseNow == [day |-> 20762, hour |-> 15]

ParseIdle ==
    /\ parseIn = [cards |-> <<>>, blob |-> [kind |-> "absent", results |-> <<>>]]
    /\ parseOut = <<>>
    /\ parseDone = FALSE

ParseInit ==
    /\ parseIn \in ParseDocuments \cup LongDocuments
    /\ parseOut = <<>>
    /\ parseDone = FALSE

\* A call of parseIndeedHTML
ParseDocument ==
    /\ ~parseDone
    /\ parseOut' = parseIndeedHTML(parseIn, ParseNow)
    /\ parseDone' = TRUE
    /\ UNCHANGED parseIn
    /\ parseOnly

ParseNext == ParseDocument

\* C7: a posting without an application URL never appears in the output of
\* parseIndeedHTML (and so reaches neither the candidate list nor the jobs
\* collection).
C7_NoPostingWithoutLink ==
    \A i \in DOMAIN parseOut : parseOut[i].link # <<>>

\* C24: every posting parseIndeedHTML returns has a non-empty title and a
\* non-empty company, whether it comes from a card or from the embedded
\* data.
C24_TitleAndCompanyPresent ==
    \A i \in DOMAIN parseOut :
        parseOut[i].title # <<>> /\ parseOut[i].company # <<>>

\* The first 20 cards of a document
FirstCards(htmlContent) ==
    SubSeq(htmlContent.cards, 1, Min(20, Len(htmlContent.cards)))

\* A card the loop skips: extraction throws, or finds no title or no
\* company
CardSkipped(card) ==
    IF extractJobDataFromCard(card, ParseNow) = Thrown
    THEN TRUE
    ELSE \/ extractJobDataFromCard(card, ParseNow)[1].title = <<>>
         \/ extractJobDataFromCard(card, ParseNow)[1].company = <<>>

KeptCards(cards) == {i \in DOMAIN cards : ~CardSkipped(cards[i])}

\* The k-th of a set of positions
NthOf(positions, k) ==
    CHOOSE i \in positions : Cardinality({j \in positions : j < i}) = k - 1

\* The postings returned are those of the given cards, in their order
ReturnsCards(cards, kept) ==
    /\ Len(parseOut) = Cardinality(kept)
    /\ \A k \in DOMAIN parseOut :
          <<parseOut[k]>> = extractJobDataFromCard(cards[NthOf(kept, k)],
                                                    ParseNow)

\* C25: parseIndeedHTML returns a list for every document. A card that
\* throws, or yields no title or no company, is skipped and the other cards
\* of the batch are kept, in order; when no card is kept the embedded data
\* is tried, and when it is absent or cannot be parsed the list is empty.
C25_SoftFailure ==
    parseDone
    => /\ KeptCards(FirstCards(parseIn)) # {}
          => ReturnsCards(FirstCards(parseIn), KeptCards(FirstCards(parseIn)))
       /\ KeptCards(FirstCards(parseIn)) = {}
          => /\ parseIn.blob.kind \in {"absent", "unparseable"}
                => parseOut = <<>>
             /\ parseIn.blob.kind = "parsed"
                => parseOut = parseIndeedAlternative(parseIn, ParseNow)

\* A card that throws stands before a complete card, and the complete card
\* is returned
C25_Witness ==
    /\ parseDone
    /\ Len(parseIn.cards) = 2
    /\ extractJobDataFromCard(parseIn.cards[1], ParseNow) = Thrown
    /\ Len(parseOut) = 1
    /\ <<parseOut[1]>> = extractJobDataFromCard(parseIn.cards[2], ParseNow)

\* C26: parseIndeedHTML returns at most 20 postings, and each of them is
\* the posting of one of the first 20 cards or of one of the first 20
\* entries of the embedded results, also when cards before were skipped.
C26_FirstTwentyFragments ==
    parseDone
    => /\ Len(parseOut) <= 20
       /\ \A k \in DOMAIN parseOut :
             \/ \E i \in DOMAIN FirstCards(parseIn) :
                   <<parseOut[k]>> =
                       extractJobDataFromCard(parseIn.cards[i], ParseNow)
             \/ \E i \in 1..Min(20, Len(parseIn.blob.results)) :
                   <<parseOut[k]>> =
                       AlternativeJob(parseIn.blob.results[i], ParseNow)

\* A document of 22 cards whose first card is skipped: 19 postings, none
\* of a late card
C26_Witness ==
    /\ parseDone
    /\ Len(parseIn.cards) = 22
    /\ CardSkipped(parseIn.cards[1])
    /\ Len(parseOut) = 19
    /\ \A k \in DOMAIN parseOut :
          <<parseOut[k]>> # extractJobDataFromCard(LateCard, ParseNow)

\* A document of 22 embedded results and no card kept: 20 postings
C26_WitnessEmbedded ==
    /\ parseDone
    /\ KeptCards(FirstCards(parseIn)) = {}
    /\ Len(parseIn.blob.results) = 22
    /\ Len(parseOut) = 20

\* ------------------------------------------------------------------------
\* Requests, responses and authentication (the same in the three handlers)
\* ------------------------------------------------------------------------

Users == {"u1", "u2"}

\* The sessions the identity service knows: token -> user
Sessions == [k \in {"token-u1", "token-u2"} |->
                IF k = "token-u1" THEN "u1" ELSE "u2"]

\* 'Bearer '
Bearer == <<"B", "e", "a", "r", "e", "r", " ">>

\* authHeader.replace('Bearer ', ''): the first occurrence is removed
BearerTokenAt(authHeader, at) ==
    IF at = 0
    THEN authHeader
    ELSE SubSeq(authHeader, 1, at - 1)
            \o SubSeq(authHeader, at + 7, Len(authHeader))

BearerToken(authHeader) == BearerTokenAt(authHeader, IndexOf(authHeader, Bearer))

\* supabase.auth.getUser(userToken): <<user>>, or <<>> with an error
getUser(userToken) ==
    CASE userToken = Text("token-u1") -> <<Sessions["token-u1"]>>
      [] userToken = Text("token-u2") -> <<Sessions["token-u2"]>>
      [] OTHER -> <<>>

\* The authentication steps: the status and message of the rejection, or
\* the user
AuthenticatedAs(user) ==
    IF user = <<>>
    THEN [status |-> 401, message |-> "Invalid token", user |-> <<>>]
    ELSE [status |-> 0, message |-> "", user |-> user]

AuthenticateText(authHeader) ==
    IF authHeader = Null \/ authHeader = <<>> \/ ~MatchesAt(authHeader, 1, Bearer)
    THEN [status |-> 401, message |-> "Unauthorized", user |-> <<>>]
    ELSE AuthenticatedAs(getUser(BearerToken(authHeader)))

AuthenticateHeader(authorization) == AuthenticateText(Text(authorization))

\* The Authorization headers of the requests
AuthHeaders ==
    {NullText, "Basic dTE6cHc=", "Bearer expired", "Bearer token-u1",
     "Bearer token-u2"}

\* The authentication steps on the headers above, computed once
Authentications == [h \in AuthHeaders |-> AuthenticateHeader(h)]

Authenticate(authorization) == Authentications[authorization]

\* ------------------------------------------------------------------------
\* The AI endpoint (api/ai.js)
\* ------------------------------------------------------------------------

MaxTextParts == 4

\* The white space JSON allows between tokens
IsJsonSpace(c) == c \in {" ", "\n", "\t", "\r"}

RECURSIVE SkipJsonSpaces(_, _)
SkipJsonSpaces(s, i) ==
    IF i <= Len(s) /\ IsJsonSpace(s[i]) THEN SkipJsonSpaces(s, i + 1) ELSE i

\* The outcome of reading a JSON construct from position i: whether it was
\* read, the position after it, and its text without insignificant white
\* space, which stands for the value
JsonFail == [ok |-> FALSE, next |-> 0, value |-> <<>>]

JsonRead(next, value) == [ok |-> TRUE, next |-> next, value |-> value]

\* A string: '"', characters other than '"' and control characters, '"'
\* (the texts hold no backslash)
RECURSIVE JsonStringEnd(_, _)
JsonStringEnd(s, i) ==
    IF i > Len(s) \/ s[i] \in {"\n", "\t", "\r"}
    THEN 0
    ELSE IF s[i] = "\"" THEN i ELSE JsonStringEnd(s, i + 1)

JsonStringUpTo(s, i, end) ==
    IF end = 0 THEN JsonFail ELSE JsonRead(end + 1, SubSeq(s, i, end))

JsonString(s, i) ==
    IF i <= Len(s) /\ s[i] = "\""
    THEN JsonStringUpTo(s, i, JsonStringEnd(s, i + 1))
    ELSE JsonFail

\* A number: 0, or a digit run that does not start with 0 (the texts hold no
\* sign, fraction or exponent)
JsonNumberUpTo(s, i, end) == JsonRead(end + 1, SubSeq(s, i, end))

JsonNumber(s, i) ==
    IF s[i] = "0"
    THEN JsonRead(i + 1, <<"0">>)
    ELSE JsonNumberUpTo(s, i, DigitsEnd(s, i))

JsonLiteral(s, i) ==
    CASE MatchesAt(s, i, <<"t", "r", "u", "e">>) ->
            JsonRead(i + 4, <<"t", "r", "u", "e">>)
      [] MatchesAt(s, i, <<"f", "a", "l", "s", "e">>) ->
            JsonRead(i + 5, <<"f", "a", "l", "s", "e">>)
      [] MatchesAt(s, i, <<"n", "u", "l", "l">>) ->
            JsonRead(i + 4, <<"n", "u", "l", "l">>)
      [] OTHER -> JsonFail

\* What was read, between the brackets that enclose it
JsonEnclosed(open, read, close) ==
    IF read.ok
    THEN JsonRead(read.next, <<open>> \o read.value \o <<close>>)
    ELSE JsonFail

\* What was read after a first element or member, and a comma
JsonJoined(value, rest) ==
    IF rest.ok
    THEN JsonRead(rest.next, value \o <<",">> \o rest.value)
    ELSE JsonFail

\* A value that was read, and the white space after it
JsonSpaced(s, read) ==
    IF read.ok
    THEN JsonRead(SkipJsonSpaces(s, read.next), read.value)
    ELSE JsonFail

RECURSIVE JsonValue(_, _), JsonElements(_, _), JsonMembers(_, _)

\* An object or an array whose opening bracket was read, from the first
\* position after the bracket and the white space
JsonObject(s, i) ==
    IF i <= Len(s) /\ s[i] = "}"
    THEN JsonRead(i + 1, <<"{", "}">>)
    ELSE JsonEnclosed("{", JsonMembers(s, i), "}")

JsonArray(s, i) ==
    IF i <= Len(s) /\ s[i] = "]"
    THEN JsonRead(i + 1, <<"[", "]">>)
    ELSE JsonEnclosed("[", JsonElements(s, i), "]")

JsonValueAt(s, i) ==
    IF i > Len(s)
    THEN JsonFail
    ELSE CASE s[i] = "{" -> JsonObject(s, SkipJsonSpaces(s, i + 1))
           [] s[i] = "[" -> JsonArray(s, SkipJsonSpaces(s, i + 1))
           [] s[i] = "\"" -> JsonString(s, i)
           [] IsDigit(s[i]) -> JsonNumber(s, i)
           [] OTHER -> JsonLiteral(s, i)

\* value: white space, then an object, an array, a string, a number or a
\* literal, then white space
JsonValue(s, i) == JsonSpaced(s, JsonValueAt(s, SkipJsonSpaces(s, i)))

\* elements: value (',' value)* up to and including the closing ']'
JsonElementsAfter(s, first) ==
    IF ~first.ok \/ first.next > Len(s)
    THEN JsonFail
    ELSE CASE s[first.next] = "]" -> JsonRead(first.next + 1, first.value)
           [] s[first.next] = "," ->
                JsonJoined(first.value, JsonElements(s, first.next + 1))
           [] OTHER -> JsonFail

JsonElements(s, i) == JsonElementsAfter(s, JsonValue(s, i))

\* members: string ':' value (',' string ':' value)* up to and including
\* the closing '}'
JsonMembersAfter(s, member, next) ==
    IF next > Len(s)
    THEN JsonFail
    ELSE CASE s[next] = "}" -> JsonRead(next + 1, member)
           [] s[next] = "," -> JsonJoined(member, JsonMembers(s, next + 1))
           [] OTHER -> JsonFail

JsonMemberValue(s, key, val) ==
    IF val.ok
    THEN JsonMembersAfter(s, key \o <<":">> \o val.value, val.next)
    ELSE JsonFail

JsonMemberColon(s, key, colon) ==
    IF colon <= Len(s) /\ s[colon] = ":"
    THEN JsonMemberValue(s, key, JsonValue(s, colon + 1))
    ELSE JsonFail

JsonMemberKey(s, key) ==
    IF key.ok
    THEN JsonMemberColon(s, key.value, SkipJsonSpaces(s, key.next))
    ELSE JsonFail

JsonMembers(s, i) == JsonMemberKey(s, JsonString(s, SkipJsonSpaces(s, i)))

\* JSON.parse: the value of the whole text, or a SyntaxError
JsonWhole(s, read) ==
    IF read.ok /\ read.next = Len(s) + 1 THEN read ELSE JsonFail

JsonParse(s) == JsonWhole(s, JsonValue(s, 1))

\* text.replace(/(fence)json\n?/g, '').replace(/(fence)\n?/g, '').trim(),
\* where the fence is three grave accents (U+0060). A string of this module
\* cannot hold U+0060: "~" stands for it, and no text here holds a tilde of
\* its own. /p\n?/g removes every p together with the line feed after it
RECURSIVE RemoveFence(_, _)

\* The text after the marker that ends before position `after`
AfterFence(s, after) ==
    SubSeq(s, IF after <= Len(s) /\ s[after] = "\n" THEN after + 1 ELSE after,
           Len(s))

RemoveFenceAt(s, fence, at) ==
    IF at = 0
    THEN s
    ELSE SubSeq(s, 1, at - 1)
            \o RemoveFence(AfterFence(s, at + Len(fence)), fence)

RemoveFence(s, fence) == RemoveFenceAt(s, fence, IndexOf(s, fence))

StripFences(text) ==
    Trim(RemoveFence(RemoveFence(text, <<"~", "~", "~", "j", "s", "o", "n">>),
                     <<"~", "~", "~">>))

\* safeJsonParse: the parsed value, or the fallback when JSON.parse throws
ParsedOr(parsed, fallbackValue) ==
    IF parsed.ok
    THEN [from |-> "model", json |-> parsed.value]
    ELSE [from |-> "fallback", json |-> fallbackValue]

safeJsonParse(text, fallbackValue) ==
    ParsedOr(JsonParse(StripFences(text)), fallbackValue)

\* A response of the AI endpoint: the status, the message of an error
\* response, the payload of a 200 (<<>> otherwise), and the number of
\* completions requested from the model
AiResponse(status, message, payload, modelCalls) ==
    [status |-> status, message |-> message, payload |-> payload,
     modelCalls |-> modelCalls]

\* `${x}` of an optional text
Interpolated(k) == IF k = NullText THEN Text("undefined") ELSE Text(k)

\* The fallback objects, as JSON.stringify writes them
ContactsFallback == Text("{\"contacts\":[]}")

EmailFallback(job, contact) ==
    Text("{\"subject\":\"Application: ")
        \o Interpolated(IF job = <<>> THEN NullText ELSE job[1].title)
        \o Text(" at ")
        \o Interpolated(IF job = <<>> THEN NullText ELSE job[1].company)
        \o Text("\",\"body\":\"Hi,\\n\\nI am interested in this position.\\n\\nBest regards\",\"contactEmail\":\"")
        \o (IF contact = <<>> THEN <<>> ELSE OrEmpty(Text(contact[1].email)))
        \o Text("\"}")

ScoreFallback ==
    Text("{\"overallScore\":0,\"matchedSkills\":[],\"missingSkills\":[]}")

\* await openaiClient.chat.completions.create(...), then
\* aiResponse.choices[0].message.content || '{}', safeJsonParse and the 200
ContentOr(content) == IF Truthy(content) THEN content ELSE <<"{", "}">>

Completed(completion, fallbackValue) ==
    CASE completion.kind = "rejected" ->
            AiResponse(500, "Connection error.", <<>>, 1)
      [] completion.kind = "no choice" ->
            AiResponse(500, "Cannot read properties of undefined", <<>>, 1)
      [] OTHER ->
            AiResponse(200, "",
                <<safeJsonParse(
                    ContentOr(IF completion.kind = "null"
                              THEN Null
                              ELSE Flatten(completion.parts)),
                    fallbackValue)>>, 1)

\* The completion is requested before the job is tested
handleFindContacts_CallFirst(job, completion) ==
    IF job = <<>>
    THEN AiResponse(400, "Job data is required", <<>>, 1)
    ELSE Completed(completion, ContactsFallback)

handleFindContacts(job, completion) ==
    IF job = <<>>
    THEN AiResponse(400, "Job data is required", <<>>, 0)
    ELSE Completed(completion, ContactsFallback)

handleGenerateEmail(job, contact, completion) ==
    Completed(completion, EmailFallback(job, contact))

handleScoreResume(resumeText, jobDescription, completion) ==
    IF ~Truthy(Text(resumeText)) \/ ~Truthy(Text(jobDescription))
    THEN AiResponse(400, "Resume and job description are required", <<>>, 0)
    ELSE Completed(completion, ScoreFallback)

\* The actions of the handler, for an authenticated request with a body
aiAction(body, completion) ==
    CASE body.action = "find_contacts" ->
            handleFindContacts(body.job, completion)
      [] body.action = "generate_email" ->
            handleGenerateEmail(body.job, body.contact, completion)
      [] body.action = "score_resume" ->
            handleScoreResume(body.resumeText,
                IF body.job = <<>> THEN NullText ELSE body.job[1].description,
                completion)
      [] OTHER -> AiResponse(400, "Unknown action", <<>>, 0)

\* The handler after the method test. A request without a body makes the
\* destructuring at line 137 throw outside the try block: the platform
\* answers 500
aiAuthenticated(request, completion, auth) ==
    IF auth.status # 0
    THEN AiResponse(auth.status, auth.message, <<>>, 0)
    ELSE IF request.body = <<>>
    THEN AiResponse(500, "FUNCTION_INVOCATION_FAILED", <<>>, 0)
    ELSE aiAction(request.body[1], completion)

\* The handler of api/ai.js
aiHandler(request, completion) ==
    IF request.method # "POST"
    THEN AiResponse(405, "Method not allowed", <<>>, 0)
    ELSE aiAuthenticated(request, completion,
                         Authenticate(request.authorization))

\* The job and contact the requests carry
AiJob ==
    [title |-> "Software Engineer", company |-> "Acme",
     description |-> "Build with React and Node, remote friendly"]

AiContact == [name |-> "Ada", email |-> "ada@acme.example"]

AiBody(action, job, contact, resumeText) ==
    [action |-> action, job |-> job, contact |-> contact,
     resumeText |-> resumeText]

AiBodies ==
    {AiBody("summarise", <<AiJob>>, <<>>, NullText),
     AiBody("find_contacts", <<>>, <<>>, NullText),
     AiBody("find_contacts", <<AiJob>>, <<>>, NullText),
     AiBody("generate_email", <<>>, <<>>, NullText),
     AiBody("generate_email", <<AiJob>>, <<AiContact>>, "React and Node"),
     AiBody("score_resume", <<AiJob>>, <<>>, NullText),
     AiBody("score_resume",
            <<[AiJob EXCEPT !.description = NullText]>>, <<>>,
            "React and Node"),
     AiBody("score_resume", <<AiJob>>, <<>>, "React and Node")}

AiRequests ==
    {[method |-> "GET", authorization |-> "Bearer token-u1", body |-> <<>>],
     [method |-> "POST", authorization |-> NullText, body |-> <<>>],
     [method |-> "POST", authorization |-> "Bearer expired", body |-> <<>>],
     [method |-> "POST", authorization |-> "Bearer token-u1", body |-> <<>>]}
    \cup {[method |-> "POST", authorization |-> "Bearer token-u1",
           body |-> <<b>>] : b \in AiBodies}

\* The fragments the model's texts are made of: the two fence markers, a
\* line feed, two JSON texts, a sentence and an unfinished object
AiFragments ==
    {"~~~json", "~~~", "\n", "{\n  \"contacts\": []\n}\n", "[1, 2]",
     "Sure: ", "{"}

\* The outcomes of the completion call: it rejects, it resolves with no
\* choice, with a null content, or with a text (the empty text included)
AiCompletions ==
    {[kind |-> k, parts |-> <<>>] : k \in {"rejected", "no choice", "null"}}
    \cup {[kind |-> "text", parts |-> p] :
            p \in SeqsUpTo(AiFragments, MaxTextParts)}

AiIdle ==
    /\ aiIn = [request |-> [method |-> "GET", authorization |-> NullText,
                            body |-> <<>>],
               completion |-> [kind |-> "rejected", parts |-> <<>>]]
    /\ aiOut = <<>>

AiInit ==
    /\ aiIn \in [request : AiRequests, completion : AiCompletions]
    /\ aiOut = <<>>

\* The handler serves the request; the completion is the one the model
\* gives if it is asked
AiHandle ==
    /\ aiOut = <<>>
    /\ aiOut' = <<aiHandler(aiIn.request, aiIn.completion)>>
    /\ UNCHANGED aiIn
    /\ aiOnly

AiNext == AiHandle

\* The fallback object of the request's action
AiFallback(body) ==
    CASE body.action = "find_contacts" -> ContactsFallback
      [] body.action = "generate_email" -> EmailFallback(body.job, body.contact)
      [] OTHER -> ScoreFallback

\* C9: whenever the model returned a text, the request is answered 200; the
\* payload is the JSON value of the text without its fence markers if that
\* is valid JSON, and the action's default payload otherwise
C9_ModelTextAlwaysAnswered ==
    (aiOut # <<>> /\ aiOut[1].modelCalls = 1 /\ aiIn.completion.kind = "text")
        => /\ aiOut[1].status = 200
           /\ aiOut[1].payload =
                 <<ParsedOr(
                     JsonParse(StripFences(Flatten(aiIn.completion.parts))),
                     AiFallback(aiIn.request.body[1]))>>

\* ------------------------------------------------------------------------
\* The discovery endpoint (api/jobs.js)
\* ------------------------------------------------------------------------

MaxRequests == 3

FiveMinutes == 5 * 60 * 1000

\* The clock counts milliseconds from an origin that lies more than five
\* minutes before the serving process starts
StartTime == 1000 * 1000

\* (preferences.roles || '').split(',').map(role => role.trim())
\*     .filter(Boolean), then the first three or ['Software Engineer']
RolesToSearch(preferences) ==
    LET roles == SelectSeq(MapTrim(Split(OrEmpty(preferences.roles), ",")),
                           LAMBDA role : role # <<>>)
    IN  IF Len(roles) > 0
        THEN SubSeq(roles, 1, Min(3, Len(roles)))
        ELSE <<Text("Software Engineer")>>

\* The outcome of scrapeIndeedJobs for one role: the postings, or an error
\* thrown (the fetch rejects, or the status is not OK)
SearchFailed == [ok |-> FALSE, jobs |-> <<>>]

SearchFound(jobs) == [ok |-> TRUE, jobs |-> jobs]

\* The loop ends at the first search that fails
RECURSIVE AllJobsFrom_StopAtFailure(_, _, _)
AllJobsFrom_StopAtFailure(rolesToSearch, upstream, i) ==
    IF i > Len(rolesToSearch) \/ ~upstream[i].ok
    THEN <<>>
    ELSE upstream[i].jobs
            \o AllJobsFrom_StopAtFailure(rolesToSearch, upstream, i + 1)

\* The for loop over rolesToSearch: allJobs.push(...jobs), an error is
\* logged and the loop goes on
RECURSIVE AllJobsFrom(_, _, _)
AllJobsFrom(rolesToSearch, upstream, i) ==
    IF i > Len(rolesToSearch)
    THEN <<>>
    ELSE (IF upstream[i].ok THEN upstream[i].jobs ELSE <<>>)
            \o AllJobsFrom(rolesToSearch, upstream, i + 1)

\* discoverJobsFromIndeed from line 117 on, given the roles to search and
\* the outcome of the search of each
discoverJobsFromIndeed(rolesToSearch, upstream) ==
    UniqueJobs(AllJobsFrom(rolesToSearch, upstream, 1))

\* The existence check finds nothing
ExistingJob_Never(rows, user, link) == FALSE

\* select('id').eq('user_id', user.id).eq('link', job.link).single()
ExistingJob(rows, user, link) ==
    \E row \in rows : row.user_id = user /\ row.link = link

\* The preferences and the postings of the discovery requests
DiscoveryPreferences ==
    [roles |-> " Software Engineer, ,Designer", techStack |-> "React,Node",
     keywords |-> "remote", location |-> "San Francisco, CA"]

\* The preferences as the client sends them: the technologies under the
\* name tech_stack, which the handler does not read
ClientPreferences == [DiscoveryPreferences EXCEPT !.techStack = NullText]

PostingA ==
    [title |-> "Software Engineer", company |-> "Acme",
     location |-> "Remote", link |-> "https://www.indeed.com/rc/clk?jk=a",
     descriptionSnippet |-> "Build with React and Node, remote friendly"]

\* Another posting with the link of PostingA
PostingA2 ==
    [PostingA EXCEPT !.title = "Senior React Developer",
                     !.company = "Node Labs"]

PostingB ==
    [title |-> "Senior React Developer", company |-> "Node Labs",
     location |-> "San Francisco, CA",
     link |-> "https://www.indeed.com/rc/clk?jk=b",
     descriptionSnippet |-> "Python, Go, Rust, Java and Kotlin services"]

DiscoveryPostings == {PostingA, PostingA2, PostingB}

\* calculateMatchScore on the postings and preferences above, computed once
MatchScores ==
    [job \in DiscoveryPostings |->
        calculateMatchScore(JobOf(job), PreferencesOf(DiscoveryPreferences))]

ClientMatchScores ==
    [job \in DiscoveryPostings |->
        calculateMatchScore(JobOf(job), PreferencesOf(ClientPreferences))]

MatchScore(job, preferences) ==
    IF job \in DiscoveryPostings /\ preferences = DiscoveryPreferences
    THEN MatchScores[job]
    ELSE IF job \in DiscoveryPostings /\ preferences = ClientPreferences
    THEN ClientMatchScores[job]
    ELSE calculateMatchScore(JobOf(job), PreferencesOf(preferences))

\* The row line 74 inserts (posted_date and source left out)
JobRow(user, job, matchScore) ==
    [user_id |-> user, title |-> job.title, company |-> job.company,
     location |-> job.location, link |-> job.link,
     description_snippet |-> job.descriptionSnippet,
     match_score |-> matchScore]

\* insert into jobs: UNIQUE(user_id, link) rejects a second row; the error
\* comes back in the result, which the handler does not read
InsertJob(rows, row) ==
    IF \E other \in rows : other.user_id = row.user_id /\ other.link = row.link
    THEN rows
    ELSE rows \cup {row}

\* The loop writes the row of every candidate, stored before or not
RECURSIVE SaveNewJobs_Refresh(_, _, _, _, _, _, _, _)
SaveNewJobs_Refresh(rows, user, searchJobs, preferences, i, calls, newJobsCount, faultAt) ==
    IF i > Len(searchJobs)
    THEN [rows |-> rows, newJobsCount |-> newJobsCount, failed |-> FALSE]
    ELSE SaveNewJobs_Refresh(
            {row \in rows : row.user_id # user \/ row.link # searchJobs[i].link}
                \cup {JobRow(user, searchJobs[i],
                             MatchScore(searchJobs[i], preferences))},
            user, searchJobs, preferences, i + 1, calls + 1,
            IF ExistingJob(rows, user, searchJobs[i].link)
            THEN newJobsCount
            ELSE newJobsCount + 1,
            faultAt)

\* The for loop over searchJobs from candidate i on. calls counts the
\* storage calls made so far; the call numbered faultAt rejects, which ends
\* the loop with the rows stored so far
RECURSIVE SaveNewJobs(_, _, _, _, _, _, _, _)
SaveNewJobs(rows, user, searchJobs, preferences, i, calls, newJobsCount, faultAt) ==
    IF i > Len(searchJobs)
    THEN [rows |-> rows, newJobsCount |-> newJobsCount, failed |-> FALSE]
    ELSE IF calls + 1 = faultAt
    THEN [rows |-> rows, newJobsCount |-> newJobsCount, failed |-> TRUE]
    ELSE IF ExistingJob(rows, user, searchJobs[i].link)
    THEN SaveNewJobs(rows, user, searchJobs, preferences, i + 1, calls + 1,
                     newJobsCount, faultAt)
    ELSE IF calls + 2 = faultAt
    THEN [rows |-> rows, newJobsCount |-> newJobsCount, failed |-> TRUE]
    ELSE SaveNewJobs(InsertJob(rows,
                               JobRow(user, searchJobs[i],
                                      MatchScore(searchJobs[i], preferences))),
                     user, searchJobs, preferences, i + 1, calls + 2,
                     newJobsCount + 1, faultAt)

\* The window includes its end
Throttled_Inclusive(cache, user, now) ==
    /\ user \in DOMAIN cache
    /\ cache[user] # 0
    /\ cache[user] >= now - FiveMinutes

\* lastFetch && lastFetch > fiveMinutesAgo
Throttled(cache, user, now) ==
    /\ user \in DOMAIN cache
    /\ cache[user] # 0
    /\ cache[user] > now - FiveMinutes

\* Math.floor(x / 1000)
CeilSeconds_Floor(x) == x \div 1000

\* Math.ceil(x / 1000)
CeilSeconds(x) == IF x % 1000 = 0 THEN x \div 1000 ELSE (x \div 1000) + 1

\* Math.ceil((lastFetch - fiveMinutesAgo) / 1000)
SecondsToWait(lastFetch, now) == CeilSeconds(lastFetch - (now - FiveMinutes))

\* requestCache.set(cacheKey, Date.now()): the key is 'jobs_' + user.id, one
\* per user
CacheSet(cache, user, now) ==
    [u \in DOMAIN cache \cup {user} |->
        IF u = user THEN now ELSE cache[u]]

\* What the handler leaves behind and answers: the stored rows, the cache,
\* the response, the user it authenticated, the time of the throttle test
\* and the number of searches it issued
JobsOutcome(rows, cache, status, message, user, at, count, total, wait, searches) ==
    [jobs |-> rows, requestCache |-> cache, status |-> status,
     message |-> message, user |-> user, at |-> at, count |-> count,
     total |-> total, wait |-> wait, searches |-> searches]

\* The roles of the preferences above, computed once
DiscoveryRoles == RolesToSearch(PreferencesOf(DiscoveryPreferences))

Roles(preferences) ==
    IF preferences.roles = DiscoveryPreferences.roles
    THEN DiscoveryRoles
    ELSE RolesToSearch(PreferencesOf(preferences))

\* What lines 19-53 decide: the status and message of the rejection, or
\* status 0 for a request the searches start for
JobsGate(status, message, user, wait) ==
    [status |-> status, message |-> message, user |-> user, wait |-> wait]

\* Lines 27-53, given the outcome of the authentication steps. A request
\* without a body makes the destructuring at line 49 throw inside the try
\* block
jobsGateAuthenticated(cache, request, at, auth) ==
    IF auth.status # 0
    THEN JobsGate(auth.status, auth.message, <<>>, 0)
    ELSE IF Throttled(cache, auth.user[1], at)
    THEN JobsGate(429, "Please wait", auth.user,
                  SecondsToWait(cache[auth.user[1]], at))
    ELSE IF request.body = <<>>
    THEN JobsGate(500, "Cannot destructure property 'preferences'",
                  auth.user, 0)
    ELSE IF request.body[1].preferences = <<>>
    THEN JobsGate(400, "Preferences are required", auth.user, 0)
    ELSE JobsGate(0, "", auth.user, 0)

\* Lines 19-53
jobsGate(cache, request, at) ==
    IF request.method # "POST"
    THEN JobsGate(405, "Method not allowed", <<>>, 0)
    ELSE jobsGateAuthenticated(cache, request, at,
                               Authenticate(request.authorization))

\* Lines 56-87: the searches and the insert loop. The run leaves the rows
\* stored, the number of new rows, whether a storage call rejected, the
\* number of candidates and the number of searches
JobsRun(saved, total, searches) ==
    [rows |-> saved.rows, newJobsCount |-> saved.newJobsCount,
     failed |-> saved.failed, total |-> total, searches |-> searches]

jobsFound(rows, user, preferences, env, searches, searchJobs) ==
    JobsRun(SaveNewJobs(rows, user, searchJobs, preferences, 1, 0, 0,
                        env.faultAt),
            Len(searchJobs), searches)

jobsSearched(rows, user, preferences, env, roles) ==
    jobsFound(rows, user, preferences, env, Len(roles),
              discoverJobsFromIndeed(roles, env.upstream))

jobsRun(rows, user, preferences, env) ==
    jobsSearched(rows, user, preferences, env, Roles(preferences))

\* Lines 89-102 with line 91 moved before the searches
jobsAnswer_CacheFirst(cache, user, env, run) ==
    JobsOutcome(run.rows, CacheSet(cache, user, env.at),
                IF run.failed THEN 500 ELSE 200,
                IF run.failed
                THEN "fetch failed"
                ELSE "Jobs discovered successfully",
                <<user>>, env.at,
                IF run.failed THEN 0 ELSE run.newJobsCount,
                IF run.failed THEN 0 ELSE run.total, 0, run.searches)

\* Lines 89-102 with the cache also written in the catch block
jobsAnswer_SlotOnFailure(cache, user, env, run) ==
    JobsOutcome(run.rows, CacheSet(cache, user, env.at + env.duration),
                IF run.failed THEN 500 ELSE 200,
                IF run.failed
                THEN "fetch failed"
                ELSE "Jobs discovered successfully",
                <<user>>, env.at,
                IF run.failed THEN 0 ELSE run.newJobsCount,
                IF run.failed THEN 0 ELSE run.total, 0, run.searches)

\* Lines 89-102: the answer. A storage call that rejects is caught at line
\* 99; otherwise line 91 reads the clock, env.duration after the throttle
\* test
jobsAnswer(cache, user, env, run) ==
    IF run.failed
    THEN JobsOutcome(run.rows, cache, 500, "fetch failed", <<user>>, env.at,
                     0, 0, 0, run.searches)
    ELSE JobsOutcome(run.rows, CacheSet(cache, user, env.at + env.duration),
                     200, "Jobs discovered successfully", <<user>>, env.at,
                     run.newJobsCount, run.total, 0, run.searches)

jobsPipeline_CacheFirst(rows, cache, user, preferences, env) ==
    jobsAnswer_CacheFirst(cache, user, env,
                          jobsRun(rows, user, preferences, env))

\* Lines 56-102
jobsPipeline(rows, cache, user, preferences, env) ==
    jobsAnswer(cache, user, env, jobsRun(rows, user, preferences, env))

\* The handler from line 56 on, given what lines 19-53 decided
jobsAdmitted(rows, cache, request, env, gate) ==
    IF gate.status # 0
    THEN JobsOutcome(rows, cache, gate.status, gate.message, gate.user,
                     env.at, 0, 0, gate.wait, 0)
    ELSE jobsPipeline(rows, cache, gate.user[1],
                      request.body[1].preferences[1], env)

\* The handler of api/jobs.js. env holds what the surroundings decide: the
\* clock's reading at the throttle test, the time the run takes, the
\* outcome of the search of each role and the storage call that rejects
jobsHandler(rows, cache, request, env) ==
    jobsAdmitted(rows, cache, request, env,
                 jobsGate(cache, request, env.at))

\* ------------------------------------------------------------------------
\* The mail endpoint (api/email.js)
\* ------------------------------------------------------------------------

\* What the handler leaves behind and answers: the token table, the
\* applications, the credentials of the module's OAuth client, the mails
\* sent, the response, and the numbers of token reads and of mails sent.
\* The response of line 63 carries authUrl and requiresAuth, the one of line
\* 109 requiresReauth; sendCalls counts the calls of
\* gmail.users.messages.send
MailOutcome(gmailTokens, apps, client, sent, status, message, user, tokenReads, mailsSent) ==
    [gmail_tokens |-> gmailTokens, applications |-> apps,
     credentials |-> client, outbox |-> sent, status |-> status,
     message |-> message, user |-> user, tokenReads |-> tokenReads,
     mailsSent |-> mailsSent, authUrl |-> <<>>, requiresAuth |-> FALSE,
     requiresReauth |-> FALSE, sendCalls |-> 0]

\* The update marks nothing
MarkEmailSent_Nothing(apps, applicationId, now) == apps

\* update applications set email_sent = true, email_sent_at = now where
\* id = applicationId (updated_at is left out)
MarkEmailSent(apps, applicationId, now) ==
    [id \in DOMAIN apps |->
        IF id = applicationId
        THEN [apps[id] EXCEPT !.email_sent = TRUE, !.email_sent_at = <<now>>]
        ELSE apps[id]]

\* upsert into gmail_tokens on conflict (user_id): user_id references a
\* user and refresh_token is NOT NULL; a row that violates either is not
\* stored, and the error comes back in the result, which is not read
UpsertToken(gmailTokens, userId, refreshToken) ==
    IF userId \in Users /\ refreshToken # NullText
    THEN [u \in DOMAIN gmailTokens \cup {userId} |->
            IF u = userId THEN refreshToken ELSE gmailTokens[u]]
    ELSE gmailTokens

\* handleOAuthCallback: exchange is the outcome of getToken(code), <<>> when
\* it rejects and <<refresh_token>> otherwise
handleOAuthCallback(gmailTokens, apps, client, sent, query, exchange) ==
    IF exchange = <<>>
    THEN MailOutcome(gmailTokens, apps, client, sent, 307,
                     "/?gmail=error", <<>>, 0, 0)
    ELSE MailOutcome(UpsertToken(gmailTokens, query.state, exchange[1]),
                     apps, client, sent, 307, "/?gmail=connected", <<>>,
                     0, 0)

\* error.code === 401 || error.message?.includes('invalid_grant')
CredentialRejected(delivery) == delivery \in {"unauthorized", "invalid_grant"}

\* A rejected credential is answered like any other failure of the send
sendEmail_NoReauth(gmailTokens, apps, client, sent, user, body, delivery, now) ==
    IF user \notin DOMAIN gmailTokens
    THEN [MailOutcome(gmailTokens, apps, client, sent, 403,
                      "Gmail not connected", <<user>>, 1, 0)
            EXCEPT !.authUrl = <<user>>, !.requiresAuth = TRUE]
    ELSE IF delivery # "sent"
    THEN [MailOutcome(gmailTokens, apps, <<gmailTokens[user]>>, sent, 500,
                      "Failed to send email", <<user>>, 1, 0)
            EXCEPT !.sendCalls = 1]
    ELSE [MailOutcome(gmailTokens,
                      IF body.applicationId # NullText
                      THEN MarkEmailSent(apps, body.applicationId, now)
                      ELSE apps,
                      <<gmailTokens[user]>>,
                      sent \cup {[account |-> gmailTokens[user],
                                  sender |-> user, to |-> body.to]},
                      200, "Email sent successfully", <<user>>, 1, 1)
            EXCEPT !.sendCalls = 1]

\* The try block of the handler (lines 52-116); delivery is the outcome of
\* gmail.users.messages.send, and the URL of line 62 carries the user as
\* its state
sendEmail(gmailTokens, apps, client, sent, user, body, delivery, now) ==
    IF user \notin DOMAIN gmailTokens
    THEN [MailOutcome(gmailTokens, apps, client, sent, 403,
                      "Gmail not connected", <<user>>, 1, 0)
            EXCEPT !.authUrl = <<user>>, !.requiresAuth = TRUE]
    ELSE IF CredentialRejected(delivery)
    THEN [MailOutcome(gmailTokens, apps, <<gmailTokens[user]>>, sent, 403,
                      "Gmail token expired. Please reconnect your Gmail account.",
                      <<user>>, 1, 0)
            EXCEPT !.requiresReauth = TRUE, !.sendCalls = 1]
    ELSE IF delivery = "error"
    THEN [MailOutcome(gmailTokens, apps, <<gmailTokens[user]>>, sent, 500,
                      "Failed to send email", <<user>>, 1, 0)
            EXCEPT !.sendCalls = 1]
    ELSE [MailOutcome(gmailTokens,
                      IF body.applicationId # NullText
                      THEN MarkEmailSent(apps, body.applicationId, now)
                      ELSE apps,
                      <<gmailTokens[user]>>,
                      sent \cup {[account |-> gmailTokens[user],
                                  sender |-> user, to |-> body.to]},
                      200, "Email sent successfully", <<user>>, 1, 1)
            EXCEPT !.sendCalls = 1]

\* Lines 45-50 and the try block, for an authenticated user and a body
emailValidated(gmailTokens, apps, client, sent, user, body, delivery, now) ==
    IF \/ ~Truthy(Text(body.to))
       \/ ~Truthy(Text(body.subject))
       \/ ~Truthy(Text(body.body))
    THEN MailOutcome(gmailTokens, apps, client, sent, 400,
                     "Missing required fields: to, subject, body",
                     <<user>>, 0, 0)
    ELSE sendEmail(gmailTokens, apps, client, sent, user, body, delivery, now)

\* Lines 33-50, given the outcome of the authentication steps. A POST
\* without a body makes the destructuring at line 45 throw outside the try
\* block: the platform answers 500
emailAuthenticated(gmailTokens, apps, client, sent, request, delivery, now, auth) ==
    IF auth.status # 0
    THEN MailOutcome(gmailTokens, apps, client, sent, auth.status,
                     auth.message, <<>>, 0, 0)
    ELSE IF request.body = <<>>
    THEN MailOutcome(gmailTokens, apps, client, sent, 500,
                     "FUNCTION_INVOCATION_FAILED", <<>>, 0, 0)
    ELSE emailValidated(gmailTokens, apps, client, sent, auth.user[1],
                        request.body[1], delivery, now)

\* The handler of api/email.js
emailHandler(gmailTokens, apps, client, sent, request, exchange, delivery, now) ==
    IF request.method = "GET" /\ Truthy(Text(request.query.code))
    THEN handleOAuthCallback(gmailTokens, apps, client, sent,
                             request.query, exchange)
    ELSE IF request.method # "POST"
    THEN MailOutcome(gmailTokens, apps, client, sent, 405,
                     "Method not allowed", <<>>, 0, 0)
    ELSE emailAuthenticated(gmailTokens, apps, client, sent, request,
                            delivery, now,
                            Authenticate(request.authorization))

\* ------------------------------------------------------------------------
\* The serving process: requests are served one after another
\* ------------------------------------------------------------------------

EmptyMap == [u \in {} |-> 0]

\* The rows of a user
UserJobs(rows, user) == {row \in rows : row.user_id = user}

\* The requests of the discovery endpoint
JobsBodies ==
    {<<>>, <<[preferences |-> <<>>]>>,
     <<[preferences |-> <<DiscoveryPreferences>>]>>,
     <<[preferences |-> <<ClientPreferences>>]>>}

JobsRequests ==
    {[method |-> "GET", authorization |-> "Bearer token-u1", body |-> <<>>],
     [method |-> "POST", authorization |-> NullText, body |-> <<>>],
     [method |-> "POST", authorization |-> "Bearer expired", body |-> <<>>]}
    \cup [method : {"POST"},
          authorization : {"Bearer token-u1", "Bearer token-u2"},
          body : JobsBodies]

\* The outcomes of the searches of the two roles of DiscoveryPreferences
Upstreams ==
    {<<SearchFailed, SearchFailed>>,
     <<SearchFound(<<PostingA>>), SearchFailed>>,
     <<SearchFailed, SearchFound(<<PostingB>>)>>,
     <<SearchFound(<<PostingA>>), SearchFound(<<PostingA2, PostingB>>)>>,
     <<SearchFound(<<PostingB, PostingA2>>), SearchFound(<<PostingA>>)>>}

\* The storage call of a run that rejects (0: none)
StorageFaults == {0, 3}

\* The time between the end of a request and the throttle test of the next
Elapsed == {0, FiveMinutes - 1, FiveMinutes}

\* The time a discovery run takes from the throttle test to line 91
Durations == {1500}

\* The requests of the mail endpoint
MailBodies ==
    [to : {"ada@acme.example"}, subject : {"Application", ""},
     body : {"Hello"}, applicationId : {NullText, "app-1", "app-2"}]

MailRequests ==
    [method : {"GET"}, authorization : {NullText},
     query : [code : {NullText, "code-1"}, state : {"u1", "u2", "nobody"}],
     body : {<<>>}]
    \cup [method : {"POST"}, authorization : {NullText, "Bearer expired"},
          query : {[code |-> NullText, state |-> NullText]}, body : {<<>>}]
    \cup [method : {"POST"},
          authorization : {"Bearer token-u1", "Bearer token-u2"},
          query : {[code |-> NullText, state |-> NullText]},
          body : {<<>>} \cup {<<b>> : b \in MailBodies}]

\* getToken(code): it rejects, or it gives a refresh token or none
Exchanges == {<<>>, <<"refresh-1">>, <<"refresh-2">>, <<NullText>>}

\* gmail.users.messages.send: it resolves, or it rejects with code 401,
\* with an invalid_grant message, or with another error
Deliveries == {"sent", "unauthorized", "invalid_grant", "error"}

\* The completions of the model in this specification
ServiceCompletions ==
    {[kind |-> "rejected", parts |-> <<>>],
     [kind |-> "text", parts |-> <<"{">>],
     [kind |-> "text", parts |-> <<"~~~json", "\n", "[1, 2]", "~~~">>]}

\* The latest request's outcome
Outcome(endpoint, status, message, user, at, count, total, wait, upstream, searches, tokenReads, mailsSent, modelCalls) ==
    [endpoint |-> endpoint, status |-> status, message |-> message,
     user |-> user, at |-> at, count |-> count, total |-> total,
     wait |-> wait, upstream |-> upstream, searches |-> searches,
     tokenReads |-> tokenReads, mailsSent |-> mailsSent,
     modelCalls |-> modelCalls]

InitialApplications ==
    [id \in {"app-1", "app-2"} |->
        [user_id |-> IF id = "app-1" THEN "u1" ELSE "u2",
         email_sent |-> FALSE, email_sent_at |-> <<>>]]

ServiceIdle ==
    /\ clock = StartTime
    /\ requestCache = EmptyMap
    /\ jobsTable = {}
    /\ gmail_tokens = EmptyMap
    /\ applications = InitialApplications
    /\ credentials = <<>>
    /\ outbox = {}
    /\ handled = MaxRequests
    /\ last = Outcome("none", 0, "", <<>>, 0, 0, 0, 0, <<>>, 0, 0, 0, 0)
    /\ lastRun = [u \in Users |-> <<>>]
    /\ completedAt = [u \in Users |-> <<>>]
    /\ lastSend = <<>>
    /\ lastCallback = <<>>

\* The process has started: the cache is empty; the tables hold two
\* applications and nothing else
Init ==
    /\ clock = StartTime
    /\ requestCache = EmptyMap
    /\ jobsTable = {}
    /\ gmail_tokens = EmptyMap
    /\ applications = InitialApplications
    /\ credentials = <<>>
    /\ outbox = {}
    /\ handled = 0
    /\ last = Outcome("none", 0, "", <<>>, 0, 0, 0, 0, <<>>, 0, 0, 0, 0)
    /\ lastRun = [u \in Users |-> <<>>]
    /\ completedAt = [u \in Users |-> <<>>]
    /\ lastSend = <<>>
    /\ lastCallback = <<>>

\* What the surroundings decide for a discovery request. The clock is read
\* at the throttle test, some time after the latest reading, and again at
\* line 91; a request rejected before the throttle test reads no clock
\* (at = 0), and a request rejected before the searches meets no upstream
JobsEnv(at, duration, upstream, faultAt, ran) ==
    [at |-> at, duration |-> duration, upstream |-> upstream,
     faultAt |-> faultAt, ran |-> ran]

JobsEnvsAt(request, at) ==
    IF jobsGate(requestCache, request, at).status # 0
    THEN {JobsEnv(at, 0, <<>>, 0, FALSE)}
    ELSE {JobsEnv(at, duration, upstream, faultAt, TRUE) :
            duration \in Durations, upstream \in Upstreams,
            faultAt \in StorageFaults}

JobsEnvs(request) ==
    IF request.method # "POST"
       \/ Authenticate(request.authorization).status # 0
    THEN {JobsEnv(0, 0, <<>>, 0, FALSE)}
    ELSE UNION {JobsEnvsAt(request, clock + elapsed) : elapsed \in Elapsed}

\* The discovery endpoint has answered and leaves its outcome behind
JobsServed(env, out) ==
    /\ jobsTable' = out.jobs
    /\ requestCache' = out.requestCache
    /\ clock' = IF env.at = 0 THEN clock ELSE env.at + env.duration
    /\ last' = Outcome("jobs", out.status, out.message, out.user, out.at,
                       out.count, out.total, out.wait, env.upstream,
                       out.searches, 0, 0, 0)
    /\ lastRun' =
          IF env.ran
          THEN [lastRun EXCEPT ![out.user[1]] =
                  IF out.status = 200
                  THEN <<[upstream |-> env.upstream,
                          jobs |-> UserJobs(out.jobs, out.user[1])]>>
                  ELSE <<>>]
          ELSE lastRun
    /\ completedAt' =
          IF out.status = 200
          THEN [completedAt EXCEPT ![out.user[1]] = <<env.at + env.duration>>]
          ELSE completedAt

\* A request to the discovery endpoint is served
ServeJobs ==
    /\ handled < MaxRequests
    /\ \E request \in JobsRequests :
       \E env \in JobsEnvs(request) :
          JobsServed(env, jobsHandler(jobsTable, requestCache, request, env))
    /\ handled' = handled + 1
    /\ lastSend' = <<>>
    /\ lastCallback' = <<>>
    /\ UNCHANGED <<gmail_tokens, applications, credentials, outbox>>
    /\ svcOnly

\* The mail endpoint has answered and leaves its outcome behind
MailServed(body, delivery, out) ==
    /\ gmail_tokens' = out.gmail_tokens
    /\ applications' = out.applications
    /\ credentials' = out.credentials
    /\ outbox' = out.outbox
    /\ last' = Outcome("email", out.status, out.message, out.user, 0, 0, 0,
                       0, <<>>, 0, out.tokenReads, out.mailsSent, 0)
    /\ lastSend' =
          <<[applicationId |-> IF body = <<>>
                               THEN NullText
                               ELSE body[1].applicationId,
             delivery |-> IF out.sendCalls = 0 THEN "none" ELSE delivery,
             sendCalls |-> out.sendCalls, authUrl |-> out.authUrl,
             requiresAuth |-> out.requiresAuth,
             requiresReauth |-> out.requiresReauth]>>

\* A request to the mail endpoint is served
ServeEmail ==
    /\ handled < MaxRequests
    /\ \E request \in MailRequests :
       \E exchange \in IF request.method = "GET" THEN Exchanges ELSE {<<>>} :
       \E delivery \in IF request.body # <<>> THEN Deliveries ELSE {"sent"} :
          /\ MailServed(request.body, delivery,
                        emailHandler(gmail_tokens, applications,
                                     credentials, outbox, request, exchange,
                                     delivery, clock))
          /\ lastCallback' =
                IF request.method = "GET" /\ Truthy(Text(request.query.code))
                THEN <<[state |-> request.query.state,
                        exchange |-> exchange]>>
                ELSE <<>>
    /\ handled' = handled + 1
    /\ UNCHANGED <<clock, requestCache, jobsTable, lastRun, completedAt>>
    /\ svcOnly

\* The AI endpoint has answered; it keeps no state
AiServed(user, out) ==
    last' = Outcome("ai", out.status, out.message, user, 0, 0, 0, 0, <<>>,
                    0, 0, 0, out.modelCalls)

\* A request to the AI endpoint is served
ServeAI ==
    /\ handled < MaxRequests
    /\ \E request \in AiRequests :
       \E completion \in IF request.body # <<>>
                         THEN ServiceCompletions
                         ELSE {[kind |-> "rejected", parts |-> <<>>]} :
          AiServed(IF request.method = "POST"
                   THEN Authenticate(request.authorization).user
                   ELSE <<>>,
                   aiHandler(request, completion))
    /\ handled' = handled + 1
    /\ lastSend' = <<>>
    /\ lastCallback' = <<>>
    /\ UNCHANGED <<clock, requestCache, jobsTable, gmail_tokens, applications,
                   credentials, outbox, lastRun, completedAt>>
    /\ svcOnly

Next == ServeJobs \/ ServeEmail \/ ServeAI

\* The latest step served a request
Served == handled' = handled + 1

C4_CacheWrittenOnlyOn200 ==
    [][/\ (requestCache' # requestCache)
            => /\ Served /\ last'.endpoint = "jobs" /\ last'.status = 200
               /\ \A u \in DOMAIN requestCache :
                     u # last'.user[1]
                        => u \in DOMAIN requestCache'
                           /\ requestCache'[u] = requestCache[u]
       /\ (Served /\ last'.endpoint = "jobs"
              /\ last'.status \in {401, 429, 400, 500})
            => requestCache' = requestCache]_vars

C4_Witness ==
    /\ last.endpoint = "jobs" /\ last.status = 500 /\ last.searches > 0
    /\ jobsTable # {}
    /\ last.user[1] \notin DOMAIN requestCache

\* C10: a request answered 401, 400 or 429 has no side effect: the
\* discovery endpoint issues no search and leaves the jobs table and the
\* throttle cache unchanged; the mail endpoint reads no token, sends no mail
\* and leaves the applications, the token table and the OAuth client
\* unchanged; the AI endpoint requests no completion
C10_RejectionsHaveNoEffect ==
    [][(Served /\ last'.status \in {401, 400, 429})
        => /\ last'.searches = 0
           /\ last'.tokenReads = 0
           /\ last'.mailsSent = 0
           /\ last'.modelCalls = 0
           /\ UNCHANGED <<requestCache, jobsTable, gmail_tokens, applications,
                          credentials, outbox>>]_vars

C10_Witness ==
    /\ last.endpoint = "jobs" /\ last.status = 429
    /\ jobsTable # {}
    /\ last.at = completedAt[last.user[1]][1]

\* C12: a discovery run leaves every stored row as it was: after the run the
\* table holds the row unchanged, and no other row with its user and link
C12_StoredRowsUntouched ==
    [][(Served /\ last'.endpoint = "jobs")
        => \A row \in jobsTable :
              /\ row \in jobsTable'
              /\ \A other \in jobsTable' :
                    (other.user_id = row.user_id /\ other.link = row.link)
                       => other = row]_vars

\* A run made with the client's preferences has met, under a stored link, a
\* posting with another title and company: it has inserted the other
\* candidate with the score of its own preferences, and the stored row
\* keeps its fields and the score of the earlier run's preferences
C12_Witness ==
    /\ last.endpoint = "jobs" /\ last.status = 200
    /\ last.total = 2 /\ last.count = 1
    /\ last.upstream = <<SearchFound(<<PostingB, PostingA2>>),
                         SearchFound(<<PostingA>>)>>
    /\ JobRow(last.user[1], PostingA, MatchScores[PostingA]) \in jobsTable
    /\ JobRow(last.user[1], PostingB, ClientMatchScores[PostingB])
          \in jobsTable
    /\ ClientMatchScores[PostingB] # MatchScores[PostingB]
    /\ ClientMatchScores[PostingA2] # MatchScores[PostingA]

\* The links of the postings that the searches that succeeded returned
LinksFound(upstream) ==
    UNION {{upstream[i].jobs[k].link : k \in DOMAIN upstream[i].jobs} :
             i \in {j \in DOMAIN upstream : upstream[j].ok}}

\* C13: a run whose searches have been issued is answered 200 with, as its
\* candidates, the postings of the searches that succeeded, one per link,
\* whichever searches failed; it is answered 500 only after it found a
\* candidate (a storage call rejected), so a run whose searches all failed
\* is answered 200 with no candidate
C13_FailedSearchesTolerated ==
    [][(Served /\ last'.endpoint = "jobs" /\ last'.searches > 0)
        => /\ last'.status \in {200, 500}
           /\ last'.status = 200
                 => last'.total = Cardinality(LinksFound(last'.upstream))
           /\ last'.status = 500 => LinksFound(last'.upstream) # {}]_vars

\* The search of the first role failed and the run answered 200 with the
\* posting of the second
C13_Witness ==
    /\ last.endpoint = "jobs" /\ last.status = 200
    /\ last.upstream = <<SearchFailed, SearchFound(<<PostingB>>)>>
    /\ last.total = 1 /\ last.count = 1

C16_CredentialSignals ==
    [][(Served /\ last'.endpoint = "email" /\ last'.tokenReads = 1)
        => /\ (last'.user[1] \notin DOMAIN gmail_tokens)
                 => /\ last'.status = 403
                    /\ lastSend'[1].authUrl = last'.user
                    /\ lastSend'[1].requiresAuth
                    /\ ~lastSend'[1].requiresReauth
                    /\ lastSend'[1].sendCalls = 0
                    /\ outbox' = outbox /\ credentials' = credentials
           /\ lastSend'[1].delivery \in {"unauthorized", "invalid_grant"}
                 => /\ last'.status = 403
                    /\ lastSend'[1].requiresReauth
                    /\ ~lastSend'[1].requiresAuth
                    /\ lastSend'[1].authUrl = <<>>
           /\ lastSend'[1].delivery = "error"
                 => /\ last'.status = 500
                    /\ ~lastSend'[1].requiresReauth
                    /\ ~lastSend'[1].requiresAuth]_vars

\* The provider has rejected the stored credential with code 401
C16_Witness ==
    /\ last.endpoint = "email" /\ last.status = 403
    /\ lastSend[1].delivery = "unauthorized"
    /\ lastSend[1].requiresReauth
    /\ last.user[1] \in DOMAIN gmail_tokens

\* C17: a step that serves a request authenticated as a user inserts jobs
\* rows of that user only, changes applications of that user only, uses
\* that user's stored credential only and leaves the token table as it was
C17_RowsOfTheUserOnly ==
    [][(Served /\ last'.user # <<>>)
        => /\ \A row \in jobsTable' \ jobsTable :
                 row.user_id = last'.user[1]
           /\ \A id \in DOMAIN applications :
                 applications'[id] # applications[id]
                    => applications[id].user_id = last'.user[1]
           /\ credentials' # credentials
                 => credentials' = <<gmail_tokens[last'.user[1]]>>
           /\ gmail_tokens' = gmail_tokens]_vars

\* The cool-down left, in milliseconds, when the latest request passed the
\* throttle test: the slot of its user plus five minutes, minus the time
\* of the test
RemainingCoolDown ==
    requestCache[last.user[1]] + FiveMinutes - last.at

RepeatedAfterFailure ==
    /\ Served
    /\ last.endpoint = "jobs" /\ last.status = 500 /\ last.searches > 0
    /\ last'.endpoint = "jobs" /\ last'.user = last.user

\* The links of the rows of a user
StoredLinks(rows, user) == {row.link : row \in UserJobs(rows, user)}

CredentialPersisted ==
    /\ lastCallback'[1].exchange # <<>>
    /\ lastCallback'[1].exchange[1] # NullText
    /\ lastCallback'[1].state \in DOMAIN gmail_tokens'
    /\ gmail_tokens'[lastCallback'[1].state] = lastCallback'[1].exchange[1]

\* C30: the OAuth callback redirects to the success marker if and only if
\* a credential for the user named in the state parameter has been
\* persisted; when the exchange fails, gives no refresh token, or the write
\* is rejected, it redirects to the failure marker and the credentials
\* stored are unchanged. The token table holds at most one row per user.
C30_SuccessOnlyIfPersisted ==
    [][(Served /\ lastCallback' # <<>>)
        => /\ last'.status = 307
           /\ last'.message \in {"/?gmail=connected", "/?gmail=error"}
           /\ (last'.message = "/?gmail=connected") <=> CredentialPersisted
           /\ ~CredentialPersisted => gmail_tokens' = gmail_tokens]_vars

\* ------------------------------------------------------------------------
\* Discovery requests in flight together (api/jobs.js, lines 36-102). The
\* handler is an async function: between two awaits it runs alone, and at
\* an await the handlers of other requests may run
\* ------------------------------------------------------------------------

MaxRuns == 2

\* The time between the latest reading of the clock and the throttle test
\* of a request that arrives
RaceElapsed == {1000, FiveMinutes}

\* A request: where its handler stands ("idle" before it arrives, "admitted"
\* at line 56, "check" at line 63, "insert" at line 74, "done" after the
\* response), its user, the clock's reading at its throttle test, its
\* candidates and the index of the one at hand, newJobsCount, its status,
\* and, as history, the number of rows it added to the table and the number
\* of its inserts the table rejected
RaceRun(pc, user, at, searchJobs, i, newJobsCount, status, added, rejected) ==
    [pc |-> pc, user |-> user, at |-> at, searchJobs |-> searchJobs, i |-> i,
     newJobsCount |-> newJobsCount, status |-> status, added |-> added,
     rejected |-> rejected]

\* UNIQUE(user_id, link)
Conflicts(rows, row) ==
    \E other \in rows : other.user_id = row.user_id /\ other.link = row.link

\* The insert throws when the table rejects the row
InsertResult_Throws(rows, row) ==
    [rows |-> InsertJob(rows, row), error |-> Conflicts(rows, row),
     thrown |-> Conflicts(rows, row)]

\* await supabase.from('jobs').insert(row), lines 74-84: the rows after it,
\* and the error its result carries when the table rejects the row. The
\* result is not read and nothing is thrown
InsertResult(rows, row) ==
    [rows |-> InsertJob(rows, row), error |-> Conflicts(rows, row),
     thrown |-> FALSE]

\* The loop from candidate i on, up to the next await: the existence check
\* of candidate i, or, after the last candidate, line 91 and the 200
RaceResume(run, i) ==
    IF i > Len(run.searchJobs)
    THEN [run EXCEPT !.pc = "done", !.i = i, !.status = 200]
    ELSE [run EXCEPT !.pc = "check", !.i = i]

\* Lines 24-53 after the authentication: the throttle test at time now
RaceAdmit(cache, user, now) ==
    IF Throttled(cache, user, now)
    THEN RaceRun("done", <<user>>, now, <<>>, 0, 0, 429, 0, 0)
    ELSE RaceRun("admitted", <<user>>, now, <<>>, 0, 0, 0, 0, 0)

\* Lines 63-70 for the candidate at hand
RaceChecked(rows, run) ==
    IF ExistingJob(rows, run.user[1], run.searchJobs[run.i].link)
    THEN RaceResume(run, run.i + 1)
    ELSE [run EXCEPT !.pc = "insert"]

\* The row of lines 74-84 for the candidate at hand
RaceRow(run) ==
    JobRow(run.user[1], run.searchJobs[run.i],
           MatchScore(run.searchJobs[run.i], DiscoveryPreferences))

\* Lines 74-87 for the candidate at hand, given the result of the insert;
\* an insert that throws is caught at line 99
RaceInserted(run, result) ==
    IF result.thrown
    THEN [run EXCEPT !.pc = "done", !.status = 500,
                     !.rejected = run.rejected + 1]
    ELSE RaceResume(
            [run EXCEPT !.newJobsCount = run.newJobsCount + 1,
                        !.added = IF result.error
                                  THEN run.added
                                  ELSE run.added + 1,
                        !.rejected = IF result.error
                                     THEN run.rejected + 1
                                     ELSE run.rejected],
            run.i + 1)

RaceIdle ==
    /\ raceClock = StartTime
    /\ raceCache = EmptyMap
    /\ raceJobs = {}
    /\ raceRuns = [r \in 1..MaxRuns |->
                     RaceRun("done", <<>>, 0, <<>>, 0, 0, 0, 0, 0)]

\* The process has started and no request has arrived
RaceInit ==
    /\ raceClock = StartTime
    /\ raceCache = EmptyMap
    /\ raceJobs = {}
    /\ raceRuns = [r \in 1..MaxRuns |->
                     RaceRun("idle", <<>>, 0, <<>>, 0, 0, 0, 0, 0)]

\* The handler of request r has run up to its next await, or to its
\* response; line 91 writes the cache on the way to the 200
RaceStepped(r, run) ==
    /\ raceRuns' = [raceRuns EXCEPT ![r] = run]
    /\ raceCache' = IF run.status = 200
                    THEN CacheSet(raceCache, run.user[1], raceClock)
                    ELSE raceCache

\* Request r, authenticated and with preferences, reaches the throttle test
RaceArrive(r) ==
    /\ raceRuns[r].pc = "idle"
    /\ \E user \in Users, elapsed \in RaceElapsed :
          /\ raceClock' = raceClock + elapsed
          /\ RaceStepped(r, RaceAdmit(raceCache, user, raceClock + elapsed))
    /\ UNCHANGED raceJobs
    /\ raceOnly

\* The searches of request r return
RaceSearch(r) ==
    /\ raceRuns[r].pc = "admitted"
    /\ \E upstream \in Upstreams :
          RaceStepped(r,
              RaceResume([raceRuns[r] EXCEPT !.searchJobs =
                            discoverJobsFromIndeed(DiscoveryRoles, upstream)],
                         1))
    /\ UNCHANGED <<raceClock, raceJobs>>
    /\ raceOnly

\* The existence check of request r returns
RaceCheck(r) ==
    /\ raceRuns[r].pc = "check"
    /\ RaceStepped(r, RaceChecked(raceJobs, raceRuns[r]))
    /\ UNCHANGED <<raceClock, raceJobs>>
    /\ raceOnly

\* The insert of request r returns
RaceInsert(r) ==
    /\ raceRuns[r].pc = "insert"
    /\ raceJobs' = InsertJob(raceJobs, RaceRow(raceRuns[r]))
    /\ RaceStepped(r, RaceInserted(raceRuns[r],
                                   InsertResult(raceJobs, RaceRow(raceRuns[r]))))
    /\ UNCHANGED raceClock
    /\ raceOnly

RaceNext ==
    \E r \in 1..MaxRuns :
        RaceArrive(r) \/ RaceSearch(r) \/ RaceCheck(r) \/ RaceInsert(r)

\* C11: whatever the interleaving of the requests, the jobs table holds at
\* most one row per (user, link), and a request whose insert the uniqueness
\* constraint rejected goes on: it is not answered 500, and once it has
\* answered, its answer is 200
C11_RejectedInsertIsSkipped ==
    /\ \A row \in raceJobs, other \in raceJobs :
          (row.user_id = other.user_id /\ row.link = other.link)
             => row = other
    /\ \A r \in 1..MaxRuns :
          raceRuns[r].rejected > 0
             => /\ raceRuns[r].status # 500
                /\ raceRuns[r].pc = "done" => raceRuns[r].status = 200

\* Two requests of one user have both answered 200, one of them after an
\* insert that the table rejected, and the table holds one row for the link
C11_Witness ==
    /\ raceRuns[1].pc = "done" /\ raceRuns[1].status = 200
    /\ raceRuns[2].pc = "done" /\ raceRuns[2].status = 200
    /\ raceRuns[1].user = raceRuns[2].user
    /\ raceRuns[2].rejected = 1
    /\ Cardinality({row \in raceJobs :
                      row.link = "https://www.indeed.com/rc/clk?jk=a"}) = 1

\* C18: no two discovery runs of one user are admitted less than five
\* minutes apart, a request that arrives while another is running included
C18_OneRunPerWindow ==
    \A r \in 1..MaxRuns, s \in 1..MaxRuns :
        (/\ r # s
         /\ raceRuns[r].pc \in {"admitted", "check", "insert", "done"}
         /\ raceRuns[s].pc \in {"admitted", "check", "insert", "done"}
         /\ raceRuns[r].status # 429 /\ raceRuns[s].status # 429
         /\ raceRuns[r].user = raceRuns[s].user
         /\ raceRuns[r].at <= raceRuns[s].at)
            => raceRuns[s].at - raceRuns[r].at >= FiveMinutes

\* C19: a run answered 200 reports the number of its candidates as total
\* and the number of rows it added to the table as count, which is at most
\* the total
C19_CountIsRowsAdded ==
    \A r \in 1..MaxRuns :
        (raceRuns[r].pc = "done" /\ raceRuns[r].status = 200)
            => /\ raceRuns[r].newJobsCount = raceRuns[r].added
               /\ raceRuns[r].newJobsCount <= Len(raceRuns[r].searchJobs)

\* ------------------------------------------------------------------------
\* Marking a posting as applied (client/src/App.jsx, HomeScreen, and
\* createApplication of api.js)
\* ------------------------------------------------------------------------

MaxClicks == 3

\* Two open sessions of one user, and the postings on their job cards
ApplySessions == {"s1", "s2"}

SessionUser == [s \in ApplySessions |-> "u1"]

ApplyJobs == {"job-a", "job-b"}

\* The number of a bag's copies of x, raised by one
OneMore(counts, x) == [counts EXCEPT ![x] = counts[x] + 1]

OneLess(counts, x) == [counts EXCEPT ![x] = counts[x] - 1]

\* A session: whether loadAllData has set its state, appliedJobIds, and,
\* per posting, the createApplication calls whose insert the table has not
\* run yet and those whose insert it has run and whose await has not
\* returned yet
ApplySession(loaded, appliedJobIds, calling, returning) ==
    [loaded |-> loaded, appliedJobIds |-> appliedJobIds,
     calling |-> calling, returning |-> returning]

\* getApplications(user.id), then new Set(savedApplications.map(app =>
\* app.job_id)): the postings of the user's applications
AppliedSet(rows, user) == {job \in ApplyJobs : rows[<<user, job>>] > 0}

ApplyIdle ==
    /\ appRows = [key \in Users \X ApplyJobs |-> 0]
    /\ appSessions = [s \in ApplySessions |->
                        ApplySession(FALSE, {}, [job \in ApplyJobs |-> 0],
                                     [job \in ApplyJobs |-> 0])]
    /\ appClicks = MaxClicks

\* The applications table holds no row (appRows counts the rows of each
\* user and posting: the table gives each row an id of its own and has no
\* other key), and no session has loaded its data
ApplyInit ==
    /\ appRows = [key \in Users \X ApplyJobs |-> 0]
    /\ appSessions = [s \in ApplySessions |->
                        ApplySession(FALSE, {}, [job \in ApplyJobs |-> 0],
                                     [job \in ApplyJobs |-> 0])]
    /\ appClicks = 0

\* loadAllData (lines 365-383) sets the session's state from the table
ApplyLoad(s) ==
    /\ appSessions' =
          [appSessions EXCEPT
              ![s].loaded = TRUE,
              ![s].appliedJobIds = AppliedSet(appRows, SessionUser[s])]
    /\ UNCHANGED <<appRows, appClicks>>
    /\ applyOnly

\* handleMarkApplied up to its await (lines 400-404): a click on the card of
\* a posting the session does not hold as applied calls createApplication
ApplyClick(s, job) ==
    /\ appClicks < MaxClicks
    /\ appSessions[s].loaded
    /\ job \notin appSessions[s].appliedJobIds
    /\ appSessions' =
          [appSessions EXCEPT ![s].calling = OneMore(@, job)]
    /\ appClicks' = appClicks + 1
    /\ UNCHANGED appRows
    /\ applyOnly

\* The insert of createApplication (lines 102-115) runs in the table: the
\* row gets an id of its own, and no constraint compares it with the rows
\* stored
ApplyInsert(s, job) ==
    /\ appSessions[s].calling[job] > 0
    /\ appRows' = OneMore(appRows, <<SessionUser[s], job>>)
    /\ appSessions' =
          [appSessions EXCEPT ![s].calling = OneLess(@, job),
                              ![s].returning = OneMore(@, job)]
    /\ UNCHANGED appClicks
    /\ applyOnly

\* The await of line 404 returns: setAppliedJobIds adds the posting
ApplyReturn(s, job) ==
    /\ appSessions[s].returning[job] > 0
    /\ appSessions' =
          [appSessions EXCEPT
              ![s].returning = OneLess(@, job),
              ![s].appliedJobIds = @ \cup {job}]
    /\ UNCHANGED <<appRows, appClicks>>
    /\ applyOnly

ApplyNext ==
    \E s \in ApplySessions :
        \/ ApplyLoad(s)
        \/ \E job \in ApplyJobs :
              ApplyClick(s, job) \/ ApplyInsert(s, job) \/ ApplyReturn(s, job)

\* C14: whatever the mark-applied actions of a user's sessions and their
\* interleaving, the applications table holds at most one row per user and
\* posting
C14_OneApplicationPerJob ==
    \A key \in Users \X ApplyJobs : appRows[key] <= 1

\* ------------------------------------------------------------------------
\* The roles a discovery run searches (api/jobs.js, discoverJobsFromIndeed,
\* lines 112-115)
\* ------------------------------------------------------------------------

MaxRoleEntries == 4

\* What stands between the commas of preferences.roles
RoleEntries == {"Designer", " Designer ", "QA", "DevOps", ""}

\* The entries with commas between them
RECURSIVE JoinedByCommas(_)
JoinedByCommas(entries) ==
    IF entries = <<>>
    THEN <<>>
    ELSE IF Len(entries) = 1
    THEN Text(entries[1])
    ELSE Text(entries[1]) \o <<",">> \o JoinedByCommas(Tail(entries))

\* The preferences of a request: roles is missing, or it is the entries
\* with commas between them
RolePreferences(in) ==
    [roles |-> IF in.missing THEN Null ELSE JoinedByCommas(in.entries),
     techStack |-> Null, keywords |-> Null, location |-> Null]

RolesInputs ==
    {[missing |-> TRUE, entries |-> <<>>]}
    \cup {[missing |-> FALSE, entries |-> entries] :
            entries \in SeqsUpTo(RoleEntries, MaxRoleEntries)}

RolesIdle ==
    /\ rolesIn = [missing |-> TRUE, entries |-> <<>>]
    /\ rolesOut = <<>>

RolesInit ==
    /\ rolesIn \in RolesInputs
    /\ rolesOut = <<>>

\* Lines 112-115 run: rolesOut holds rolesToSearch, one search each
RolesChosen ==
    /\ rolesOut = <<>>
    /\ rolesOut' = <<RolesToSearch(RolePreferences(rolesIn))>>
    /\ UNCHANGED rolesIn
    /\ rolesOnly

RolesNext == RolesChosen

\* The entries trimmed, without the empty ones
RolesSupplied(entries) ==
    SelectSeq([i \in DOMAIN entries |-> Trim(Text(entries[i]))],
              LAMBDA role : role # <<>>)

\* The first occurrences of the first n distinct elements
RECURSIVE FirstDistinct(_, _, _)
FirstDistinct(remaining, kept, n) ==
    IF remaining = <<>> \/ Len(kept) = n
    THEN kept
    ELSE FirstDistinct(Tail(remaining),
                       IF \E i \in DOMAIN kept : kept[i] = Head(remaining)
                       THEN kept
                       ELSE Append(kept, Head(remaining)),
                       n)

\* C20: the run searches between one and three roles and no role twice:
\* the first three distinct roles among the trimmed, non-empty entries of
\* the roles string, or 'Software Engineer' alone when there is none
C20_FirstThreeDistinctRoles ==
    rolesOut # <<>>
        => /\ Len(rolesOut[1]) \in 1..3
           /\ \A i \in DOMAIN rolesOut[1], j \in DOMAIN rolesOut[1] :
                 i # j => rolesOut[1][i] # rolesOut[1][j]
           /\ rolesOut[1] =
                 IF RolesSupplied(rolesIn.entries) = <<>>
                 THEN <<Text("Software Engineer")>>
                 ELSE FirstDistinct(RolesSupplied(rolesIn.entries), <<>>, 3)

\* ------------------------------------------------------------------------
\* Send requests in flight together (api/email.js, lines 33-102). The
\* handlers share the module's googleOAuthClient (lines 15-19); between two
\* awaits a handler runs alone, and at an await the handlers of other
\* requests may run
\* ------------------------------------------------------------------------

MaxSends == 2

\* The rows of gmail_tokens: each user has connected an account of their own
StoredTokens == [u \in Users |-> IF u = "u1" THEN "refresh-1" ELSE "refresh-2"]

\* A request: where its handler stands ("idle" before it arrives,
\* "authenticated" at line 54, "token" at line 71, "sending" and
\* "authorized" within the await of line 83, "done" after the response),
\* its user, the refresh token it has read, and the credentials its
\* message is sent with
SendRequest(pc, user, token, account) ==
    [pc |-> pc, user |-> user, token |-> token, account |-> account]

SendIdle ==
    /\ sendClient = <<>>
    /\ sendReqs = [r \in 1..MaxSends |-> SendRequest("done", <<>>, <<>>, <<>>)]
    /\ sendOutbox = {}

\* The process has started: the client holds no credentials
SendInit ==
    /\ sendClient = <<>>
    /\ sendReqs = [r \in 1..MaxSends |-> SendRequest("idle", <<>>, <<>>, <<>>)]
    /\ sendOutbox = {}

\* Lines 33-43: a request arrives and its user is authenticated
SendArrive(r) ==
    /\ sendReqs[r].pc = "idle"
    /\ \E user \in Users :
          sendReqs' = [sendReqs EXCEPT
                          ![r] = SendRequest("authenticated", <<user>>, <<>>,
                                             <<>>)]
    /\ UNCHANGED <<sendClient, sendOutbox>>
    /\ sendOnly

\* Lines 54-58: the refresh token of the request's user is read
SendReadToken(r) ==
    /\ sendReqs[r].pc = "authenticated"
    /\ sendReqs' = [sendReqs EXCEPT
                       ![r].pc = "token",
                       ![r].token = <<StoredTokens[sendReqs[r].user[1]]>>]
    /\ UNCHANGED <<sendClient, sendOutbox>>
    /\ sendOnly

\* Lines 71-83: setCredentials puts the token into the module's client, and
\* gmail.users.messages.send is called with that client as its auth
SendCall(r) ==
    /\ sendReqs[r].pc = "token"
    /\ sendClient' = sendReqs[r].token
    /\ sendReqs' = [sendReqs EXCEPT ![r].pc = "sending"]
    /\ UNCHANGED sendOutbox
    /\ sendOnly

\* Within the await of line 83: the request is authorised with the
\* credentials the client holds when the call comes to read them, at the
\* call itself or after other handlers have run
SendAuthorize(r) ==
    /\ sendReqs[r].pc = "sending"
    /\ sendReqs' = [sendReqs EXCEPT ![r].pc = "authorized",
                                    ![r].account = sendClient]
    /\ UNCHANGED <<sendClient, sendOutbox>>
    /\ sendOnly

\* The await of line 83 resolves: the message has been sent from the
\* account of the credentials it was authorised with; lines 90-102 answer
SendDeliver(r) ==
    /\ sendReqs[r].pc = "authorized"
    /\ sendOutbox' = sendOutbox \cup {[sender |-> sendReqs[r].user[1],
                                       account |-> sendReqs[r].account[1]]}
    /\ sendReqs' = [sendReqs EXCEPT ![r].pc = "done"]
    /\ UNCHANGED sendClient
    /\ sendOnly

SendNext ==
    \E r \in 1..MaxSends :
        \/ SendArrive(r)
        \/ SendReadToken(r)
        \/ SendCall(r)
        \/ SendAuthorize(r)
        \/ SendDeliver(r)

ScoreSpecInit ==
    ScoreInit
        /\ DedupIdle /\ DateIdle /\ ParseIdle /\ AiIdle /\ ServiceIdle
        /\ RaceIdle /\ ApplyIdle /\ RolesIdle /\ SendIdle

\* calculateMatchScore on the postings and preferences of the catalogue
SpecScore == ScoreSpecInit /\ [][ScoreNext]_vars

DedupSpecInit ==
    DedupInit
        /\ ScoreIdle /\ DateIdle /\ ParseIdle /\ AiIdle /\ ServiceIdle
        /\ RaceIdle /\ ApplyIdle /\ RolesIdle /\ SendIdle

\* The deduplication step on every list of up to MaxListLen postings
SpecDedup == DedupSpecInit /\ [][DedupNext]_vars

DateSpecInit ==
    DateInit
        /\ ScoreIdle /\ DedupIdle /\ ParseIdle /\ AiIdle /\ ServiceIdle
        /\ RaceIdle /\ ApplyIdle /\ RolesIdle /\ SendIdle

\* parseRelativeDate on every phrase of up to MaxPhraseParts fragments
SpecDate == DateSpecInit /\ [][DateNext]_vars

ParseSpecInit ==
    ParseInit
        /\ ScoreIdle /\ DedupIdle /\ DateIdle /\ AiIdle /\ ServiceIdle
        /\ RaceIdle /\ ApplyIdle /\ RolesIdle /\ SendIdle

\* parseIndeedHTML on every document of the catalogue
SpecParse == ParseSpecInit /\ [][ParseNext]_vars

AiSpecInit ==
    AiInit
        /\ ScoreIdle /\ DedupIdle /\ DateIdle /\ ParseIdle /\ ServiceIdle
        /\ RaceIdle /\ ApplyIdle /\ RolesIdle /\ SendIdle

\* The AI endpoint on the requests of the catalogue and every model text of
\* up to MaxTextParts fragments
SpecAI == AiSpecInit /\ [][AiNext]_vars

SpecInit ==
    Init
        /\ ScoreIdle /\ DedupIdle /\ DateIdle /\ ParseIdle /\ AiIdle
        /\ RaceIdle /\ ApplyIdle /\ RolesIdle /\ SendIdle

\* The three endpoints of one serving process, up to MaxRequests requests
Spec == SpecInit /\ [][Next]_vars

RaceSpecInit ==
    RaceInit
        /\ ScoreIdle /\ DedupIdle /\ DateIdle /\ ParseIdle /\ AiIdle
        /\ ServiceIdle /\ ApplyIdle /\ RolesIdle /\ SendIdle

\* Up to MaxRuns discovery requests whose handlers interleave at their
\* awaits
SpecRace == RaceSpecInit /\ [][RaceNext]_vars

ApplySpecInit ==
    ApplyInit
        /\ ScoreIdle /\ DedupIdle /\ DateIdle /\ ParseIdle /\ AiIdle
        /\ ServiceIdle /\ RaceIdle /\ RolesIdle /\ SendIdle

\* Two sessions of one user and up to MaxClicks clicks on "Mark Applied"
SpecApply == ApplySpecInit /\ [][ApplyNext]_vars

RolesSpecInit ==
    RolesInit
        /\ ScoreIdle /\ DedupIdle /\ DateIdle /\ ParseIdle /\ AiIdle
        /\ ServiceIdle /\ RaceIdle /\ ApplyIdle /\ SendIdle

\* The roles searched for every roles string of up to MaxRoleEntries entries
SpecRoles == RolesSpecInit /\ [][RolesNext]_vars

SendSpecInit ==
    SendInit
        /\ ScoreIdle /\ DedupIdle /\ DateIdle /\ ParseIdle /\ AiIdle
        /\ ServiceIdle /\ RaceIdle /\ ApplyIdle /\ RolesIdle

\* Up to MaxSends send requests whose handlers interleave at their awaits
SpecSend == SendSpecInit /\ [][SendNext]_vars

====
